---------------------------- MODULE Spec2Model ----------------------------
(***************************************************************************)
(* AfriLingo: the pronunciation scorer of SpitchService, the spitch-proxy  *)
(* edge function, the lesson data layer, and the Gemini service wrappers.  *)
(*                                                                         *)
(* Strings are sequences of one-character strings.  A character is either  *)
(* an ASCII letter, the space, or a code point written "U+xxxx".           *)
(***************************************************************************)
EXTENDS Integers, Sequences, FiniteSets, TLC

VARIABLES
    str1, str2,      \* the two string arguments of the scorer call
    spc,             \* position of the scorer call: "call" | "done"
    sres,            \* its result
    rev,             \* spitch-proxy: which revision of index.ts serves
    apiKey,          \* spitch-proxy: Deno.env.get('SPITCH_API_KEY')
    req,             \* spitch-proxy: the incoming request
    ppc,             \* spitch-proxy: "recv" | "fetching" | "replied" | "responded"
    upReq,           \* spitch-proxy: the request sent upstream, if any
    upResp,          \* spitch-proxy: the upstream response, if any
    presp,           \* spitch-proxy: the response of the proxy
    progress,        \* lessons: the user's user_progress row of each lesson
    profile,         \* lessons: the user's profiles row
    calls,           \* lessons: the lessonService call running in each slot
    ncalls,          \* lessons: calls started so far (also the clock of new Date())
    ledger,          \* lessons: what the calls that returned have reported
    maxRetries,      \* retryWithBackoff: its second argument
    ri,              \* retryWithBackoff: the loop variable i
    rpc,             \* retryWithBackoff: "loop" | "calling" | "waiting" | "resolved" | "rejected"
    rCalls,          \* retryWithBackoff: the outcome of each invocation of fn, in order
    rWaits,          \* retryWithBackoff: the delay of each setTimeout, in ms, in order
    rInFlight,       \* retryWithBackoff: invocations of fn not yet settled
    rResult,         \* retryWithBackoff: what the returned promise settled with
    gOp,             \* gemini: "generateStory" | "startConversation"
    gLang, gTopic,   \* gemini: the language and topic arguments
    gpc,             \* gemini: "awaiting" | "resolved" | "rejected"
    gReply,          \* gemini: how the generateContent call ended
    gResult,         \* gemini: what the returned promise settled with
    aReq,            \* analyzePronunciation: audioBlob.type, expectedText, language
    apc,             \* analyzePronunciation: "start" | "fetch" | "resolved" | "rejected"
    aConv,           \* analyzePronunciation: how convertWebMToWav ended
    aForm,           \* analyzePronunciation: the FormData posted
    aResp,           \* analyzePronunciation: how the fetch ended
    aResult,         \* analyzePronunciation: what the returned promise settled with
    audioCache,      \* generateSpeech: the Map, as its entries in insertion order
    sCalls,          \* generateSpeech: the calls in flight, by slot
    nextCold,        \* generateSpeech: number of the next text not yet synthesised
    nSpeech,         \* generateSpeech: calls made so far for the other texts
    authCtx,         \* AuthProvider: the state [session, user, loading]
    gsPc,            \* AuthProvider: initAuth's position
    gsValue,         \* AuthProvider: the session getSession resolved with
    sbSession,       \* Supabase: the current session
    authQueue,       \* Supabase: sessions of auth events not yet delivered
    nAuthEvents,     \* Supabase: auth events so far
    authFired,       \* AuthProvider: a callback has run
    path,            \* router: the current location
    screen,          \* router: the element rendered for it
    conversation,    \* ConversationPractice: the message list
    isLoading,       \* ConversationPractice: a request is running
    userInput,       \* ConversationPractice: the text of the input field
    conversationStarted,  \* ConversationPractice: the chat is on screen
    cpPc,            \* "idle" | "starting" | "reply" | "speech"
    cpCall,          \* the running sendMessage: its captured lists and reply
    cpOutcome,       \* how the last sendMessage ended: "none" | "ok" | "failed"
    nSends,          \* sendMessage calls that passed the guard
    nCompleted       \* calls of onComplete

scoreVars == <<str1, str2, spc, sres>>
proxyVars == <<rev, apiKey, req, ppc, upReq, upResp, presp>>

lessonVars == <<progress, profile, calls, ncalls, ledger>>

retryVars == <<maxRetries, ri, rpc, rCalls, rWaits, rInFlight, rResult>>

geminiVars == <<gOp, gLang, gTopic, gpc, gReply, gResult>>

pronounceVars == <<aReq, apc, aConv, aForm, aResp, aResult>>

speechVars == <<audioCache, sCalls, nextCold, nSpeech>>

authVars == <<authCtx, gsPc, gsValue, sbSession, authQueue, nAuthEvents, authFired, path,
              screen>>

convVars == <<conversation, isLoading, userInput, conversationStarted, cpPc, cpCall,
              cpOutcome, nSends, nCompleted>>

vars == <<scoreVars, proxyVars, lessonVars, retryVars, geminiVars, pronounceVars, speechVars,
          authVars, convVars>>

notScore ==
    <<proxyVars, lessonVars, retryVars, geminiVars, pronounceVars, speechVars, authVars, convVars>>
notProxy ==
    <<scoreVars, lessonVars, retryVars, geminiVars, pronounceVars, speechVars, authVars, convVars>>
notLesson ==
    <<scoreVars, proxyVars, retryVars, geminiVars, pronounceVars, speechVars, authVars, convVars>>
notRetry ==
    <<scoreVars, proxyVars, lessonVars, geminiVars, pronounceVars, speechVars, authVars, convVars>>
notGemini ==
    <<scoreVars, proxyVars, lessonVars, retryVars, pronounceVars, speechVars, authVars, convVars>>
notPronounce ==
    <<scoreVars, proxyVars, lessonVars, retryVars, geminiVars, speechVars, authVars, convVars>>
notSpeech ==
    <<scoreVars, proxyVars, lessonVars, retryVars, geminiVars, pronounceVars, authVars, convVars>>
notAuth ==
    <<scoreVars, proxyVars, lessonVars, retryVars, geminiVars, pronounceVars, speechVars,
      convVars>>
notConv ==
    <<scoreVars, proxyVars, lessonVars, retryVars, geminiVars, pronounceVars, speechVars,
      authVars>>

NoValue == "none"            \* undefined / null, among strings
NoRecord == [absent |-> TRUE]  \* no object yet
NoHeader == <<>>               \* a header that is absent or empty

-----------------------------------------------------------------------------
(* Bounds                                                                  *)

MaxWordLen == 3
MaxStrLen == 3
MaxCalls == 2        \* lessonService calls in one behaviour
MaxRetriesArg == 4   \* largest maxRetries passed to retryWithBackoff
RandSteps == 4       \* Math.random() is a multiple of 1/RandSteps
MaxSpeechCalls == 2  \* generateSpeech calls for texts asked for before
MaxAuthEvents == 2   \* auth events after AuthProvider mounts
MaxSends == 3        \* sendMessage calls that pass the guard

(* Sequences over S of length at most n *)
SeqsUpTo(S, n) == UNION {[1..k -> S] : k \in 0..n}

Min2(a, b) == IF a <= b THEN a ELSE b
Max2(a, b) == IF a >= b THEN a ELSE b

-----------------------------------------------------------------------------
(* Characters                                                              *)

CombiningAcute == "U+0301"      \* in [\u0300-\u036f]
AAcute == "U+00E1"              \* precomposed a-acute; NFD is a, U+0301

WordChars == {"a", "b", AAcute, CombiningAcute}
StrChars == {"a", "A", "b", " "}

Words == SeqsUpTo(WordChars, MaxWordLen)
Strs == SeqsUpTo(StrChars, MaxStrLen)

(* String.prototype.normalize("NFD") on one character *)
NFDChar(c) == IF c = AAcute THEN <<"a", CombiningAcute>> ELSE <<c>>

RECURSIVE NFD(_)
NFD(s) == IF s = <<>> THEN <<>> ELSE NFDChar(Head(s)) \o NFD(Tail(s))

(* the character class [\u0300-\u036f] *)
IsCombiningMark(c) == c = CombiningAcute

RECURSIVE StripMarks(_)
StripMarks(s) ==
    IF s = <<>> THEN <<>>
    ELSE IF IsCombiningMark(Head(s)) THEN StripMarks(Tail(s))
    ELSE <<Head(s)>> \o StripMarks(Tail(s))

(* text.normalize("NFD").replace(/[\u0300-\u036f]/g, "") *)
removeToneMarks(text) == StripMarks(NFD(text))

(* String.prototype.toLowerCase on one character *)
LowerChar(c) == IF c = "A" THEN "a" ELSE c

toLowerCase(s) == [i \in 1..Len(s) |-> LowerChar(s[i])]

(* the character class \s *)
IsWhitespace(c) == c = " "

-----------------------------------------------------------------------------
(* levenshteinDistance: the matrix is filled row by row; row i is the      *)
(* function j |-> matrix[i][j] for j in 0..str1.length.                    *)

(* matrix[0][j] = j *)
LevRow0(str1len) == [j \in 0..str1len |-> j]

(* a variant whose minimum leaves out the term matrix[i - 1][j] + 1 *)
RECURSIVE LevRowUpToTwoTerms(_, _, _, _, _)
LevRowUpToTwoTerms(s1, s2, i, prev, j) ==
    IF j = 0 THEN (0 :> i)
    ELSE LET left == LevRowUpToTwoTerms(s1, s2, i, prev, j - 1)
             cell == IF s2[i] = s1[j]
                     THEN prev[j - 1]
                     ELSE Min2(prev[j - 1] + 1, left[j - 1] + 1)
         IN  left @@ (j :> cell)

(* matrix[i][0..j] given the row above; matrix[i][0] = i *)
RECURSIVE LevRowUpTo(_, _, _, _, _)
LevRowUpTo(s1, s2, i, prev, j) ==
    IF j = 0 THEN (0 :> i)
    ELSE LET left == LevRowUpTo(s1, s2, i, prev, j - 1)
             cell == IF s2[i] = s1[j]
                     THEN prev[j - 1]
                     ELSE Min2(Min2(prev[j - 1] + 1, left[j - 1] + 1), prev[j] + 1)
         IN  left @@ (j :> cell)

RECURSIVE LevRow(_, _, _)
LevRow(s1, s2, i) ==
    IF i = 0 THEN LevRow0(Len(s1))
    ELSE LevRowUpTo(s1, s2, i, LevRow(s1, s2, i - 1), Len(s1))

levenshteinDistance(s1, s2) == LevRow(s1, s2, Len(s2))[Len(s1)]

(* a variant that compares the raw words in the last test *)
wordsMatchRawDistance(word1, word2) ==
    IF word1 = word2 THEN TRUE
    ELSE IF removeToneMarks(word1) = removeToneMarks(word2) THEN TRUE
    ELSE levenshteinDistance(word1, word2) <= 1

wordsMatch(word1, word2) ==
    IF word1 = word2 THEN TRUE
    ELSE LET normalized1 == removeToneMarks(word1)
             normalized2 == removeToneMarks(word2)
         IN  IF normalized1 = normalized2 THEN TRUE
             ELSE levenshteinDistance(normalized1, normalized2) <= 1

-----------------------------------------------------------------------------
(* The scorer: a call of wordsMatch on two lowercased tokens               *)

ScoreIdle == str1 = <<>> /\ str2 = <<>> /\ spc = "idle" /\ sres = NoValue

ProxyIdle ==
    /\ rev = 1 /\ apiKey = NoValue /\ req = NoRecord /\ ppc = "idle"
    /\ upReq = NoRecord /\ upResp = NoRecord /\ presp = NoRecord

LessonIdle ==
    /\ progress = <<>> /\ profile = NoRecord /\ calls = <<>> /\ ncalls = 0
    /\ ledger = NoRecord

RetryIdle ==
    /\ maxRetries = 0 /\ ri = 0 /\ rpc = "idle" /\ rCalls = <<>> /\ rWaits = <<>>
    /\ rInFlight = 0 /\ rResult = NoRecord

GeminiIdle ==
    /\ gOp = NoValue /\ gLang = NoValue /\ gTopic = NoValue /\ gpc = "idle"
    /\ gReply = NoRecord /\ gResult = NoRecord

PronounceIdle ==
    /\ aReq = NoRecord /\ apc = "idle" /\ aConv = NoValue /\ aForm = NoRecord
    /\ aResp = NoRecord /\ aResult = NoRecord

SpeechIdle ==
    /\ audioCache = <<>> /\ sCalls = <<>> /\ nextCold = 0 /\ nSpeech = 0

AuthIdle ==
    /\ authCtx = NoRecord /\ gsPc = "idle" /\ gsValue = NoRecord /\ sbSession = NoRecord
    /\ authQueue = <<>> /\ nAuthEvents = 0 /\ authFired = FALSE
    /\ path = NoValue /\ screen = NoValue

ConvIdle ==
    /\ conversation = <<>> /\ isLoading = FALSE /\ userInput = <<>>
    /\ conversationStarted = FALSE /\ cpPc = "idle" /\ cpCall = NoRecord
    /\ cpOutcome = "none" /\ nSends = 0 /\ nCompleted = 0

InitWords ==
    /\ ProxyIdle /\ LessonIdle /\ RetryIdle /\ GeminiIdle /\ PronounceIdle /\ SpeechIdle /\ AuthIdle
    /\ ConvIdle
    /\ str1 \in Words
    /\ str2 \in Words
    /\ spc = "call"
    /\ sres = NoValue

WordsMatchCall ==
    /\ spc = "call"
    /\ sres' = wordsMatch(str1, str2)
    /\ spc' = "done"
    /\ UNCHANGED <<str1, str2, notScore>>

NextWords == WordsMatchCall

SpecWords == InitWords /\ [][NextWords]_vars

(* levenshteinDistance on its own, over a three-letter alphabet *)
LevChars == {"a", "b", AAcute}
LevWords == SeqsUpTo(LevChars, MaxWordLen)

InitLev ==
    /\ ProxyIdle /\ LessonIdle /\ RetryIdle /\ GeminiIdle /\ PronounceIdle /\ SpeechIdle /\ AuthIdle
    /\ ConvIdle
    /\ str1 \in LevWords
    /\ str2 \in LevWords
    /\ spc = "call"
    /\ sres = NoValue

LevenshteinCall ==
    /\ spc = "call"
    /\ sres' = levenshteinDistance(str1, str2)
    /\ spc' = "done"
    /\ UNCHANGED <<str1, str2, notScore>>

NextLev == LevenshteinCall

SpecLev == InitLev /\ [][NextLev]_vars

-----------------------------------------------------------------------------
(* String.prototype.split(/\s+/): every maximal run of whitespace is one   *)
(* separator; a separator at either end leaves an empty token there, and   *)
(* the empty string splits into one empty token.                           *)

RECURSIVE SplitFrom(_, _, _, _)
SplitFrom(s, i, tokens, cur) ==
    IF i > Len(s) THEN Append(tokens, cur)
    ELSE IF IsWhitespace(s[i])
         THEN IF i > 1 /\ IsWhitespace(s[i - 1])
              THEN SplitFrom(s, i + 1, tokens, cur)
              ELSE SplitFrom(s, i + 1, Append(tokens, cur), <<>>)
         ELSE SplitFrom(s, i + 1, tokens, Append(cur, s[i]))

SplitWhitespace(s) == SplitFrom(s, 1, <<>>, <<>>)

(* the for loop of calculatePronunciationScore, from index i (0-based) *)
RECURSIVE MatchLoop(_, _, _, _)
MatchLoop(transcribedWords, expectedWords, i, matchCount) ==
    IF i < Min2(Len(transcribedWords), Len(expectedWords))
    THEN MatchLoop(transcribedWords, expectedWords, i + 1,
                   IF wordsMatch(transcribedWords[i + 1], expectedWords[i + 1])
                   THEN matchCount + 1 ELSE matchCount)
    ELSE matchCount

(* a variant that divides by the shorter list's length *)
calculatePronunciationScoreMinDivisor(transcribed, expected) ==
    LET transcribedWords == SplitWhitespace(toLowerCase(transcribed))
        expectedWords == SplitWhitespace(toLowerCase(expected))
    IN  [num |-> MatchLoop(transcribedWords, expectedWords, 0, 0),
         den |-> Min2(Len(transcribedWords), Len(expectedWords))]

(* the quotient matchCount / maxLength is kept as the pair (num, den) *)
calculatePronunciationScore(transcribed, expected) ==
    LET transcribedWords == SplitWhitespace(toLowerCase(transcribed))
        expectedWords == SplitWhitespace(toLowerCase(expected))
        maxLength == Max2(Len(transcribedWords), Len(expectedWords))
    IN  [num |-> MatchLoop(transcribedWords, expectedWords, 0, 0),
         den |-> maxLength]

InitScore ==
    /\ ProxyIdle /\ LessonIdle /\ RetryIdle /\ GeminiIdle /\ PronounceIdle /\ SpeechIdle /\ AuthIdle
    /\ ConvIdle
    /\ str1 \in Strs
    /\ str2 \in Strs
    /\ spc = "call"
    /\ sres = NoValue

ScoreCall ==
    /\ spc = "call"
    /\ sres' = calculatePronunciationScore(str1, str2)
    /\ spc' = "done"
    /\ UNCHANGED <<str1, str2, notScore>>

NextScore == ScoreCall

SpecScore == InitScore /\ [][NextScore]_vars

-----------------------------------------------------------------------------
(* spitch-proxy/index.ts.  The file holds two revisions of the handler:    *)
(* revision 1 (lines 1-175) tests the API key before the endpoint,         *)
(* revision 2 (lines 176-353) the endpoint before the API key.             *)

(* A header value is a sequence of fragments; value.includes(x) holds when *)
(* x is one of them.  An absent header has no fragment (value?.includes is *)
(* then undefined, which is falsy).                                        *)
Includes(header, fragment) == \E i \in 1..Len(header) : header[i] = fragment

(* Body texts, and JSON.parse / JSON.stringify on them *)
TextObj == "{\"text\":\"a\"}"
TextObjSpaced == "{ \"text\" : \"a\" }"
TextMessage == "{\"message\":\"m\"}"
TextDetail == "{\"detail\":\"d\"}"
TextHtml == "<html>"
BodyTexts == {"", TextObj, TextObjSpaced, TextMessage, TextDetail, TextHtml}

JSONParses(text) == text \in {TextObj, TextObjSpaced, TextMessage, TextDetail}

JSONParse(text) ==
    IF text \in {TextObj, TextObjSpaced} THEN [text |-> "a"]
    ELSE IF text = TextMessage THEN [message |-> "m"]
    ELSE [detail |-> "d"]

JSONStringify(value) ==
    IF value = [text |-> "a"] THEN TextObj
    ELSE IF value = [message |-> "m"] THEN TextMessage
    ELSE TextDetail

(* obj.key of a parsed object: undefined when the key is absent *)
Field(obj, key) == IF key \in DOMAIN obj THEN obj[key] ELSE NoValue

(* a || b on strings and undefined *)
OrElse(a, b) == IF a = NoValue \/ a = "" THEN b ELSE a

Revisions == {1, 2}

allowedEndpoints(r) ==
    IF r = 1
    THEN {"/v1/speech", "/v1/transcriptions", "/v1/diacritics", "/v1/translate"}
    ELSE {"/v1/speech", "/v1/transcriptions", "/v1/tone-mark", "/v1/translate"}

(* values of the 'endpoint' query parameter; NoValue: the parameter is missing *)
EndpointParams ==
    {NoValue, "", "/v1/speech", "/v1/transcriptions", "/v1/diacritics",
     "/v1/tone-mark", "/v1/translate", "/v1/voices"}

(* the endpoints SpitchService passes to the proxy: generateSpeech,          *)
(* analyzePronunciation and transcribeAudio, addToneMarks                  *)
ClientEndpoints == {"/v1/speech", "/v1/transcriptions", "/v1/diacritics"}

(* a request as SpitchService sends it: POST, JSON for speech and           *)
(* diacritics, a form for transcriptions                                   *)
IsClientRequest(q) ==
    /\ q.method = "POST"
    /\ q.endpoint \in ClientEndpoints
    /\ IF q.endpoint = "/v1/transcriptions"
       THEN q.contentType = <<"multipart/form-data", "; boundary=x">> /\ q.formOk
       ELSE q.contentType = <<"application/json">> /\ q.body = TextObj

ApiKeys == {NoValue, "", "key-1", "key-2"}

RequestContentTypes ==
    {NoHeader,
     <<"application/json">>,
     <<"multipart/form-data", "; boundary=x">>,
     <<"multipart/form-data", "; note=", "application/json">>,
     <<"text/plain">>}

(* a request: GET carries no body, so req.text() is "" and req.formData() throws *)
Requests ==
    {q \in [method : {"OPTIONS", "POST", "GET"},
            endpoint : EndpointParams,
            contentType : RequestContentTypes,
            body : {"", TextObj, TextObjSpaced, TextHtml},
            formOk : BOOLEAN] :
        q.method # "POST" => (q.body = "" /\ ~q.formOk)}

UpstreamContentTypes ==
    {NoHeader,
     <<"audio", "/wav">>,
     <<"application/json">>,
     <<"application/json", "; charset=utf-8">>,
     <<"application/json", "; profile=", "audio">>,
     <<"text/plain">>}

UpstreamResponses ==
    [status : {200, 201, 400, 401, 500},
     contentType : UpstreamContentTypes,
     body : BodyTexts]

(* Response.ok *)
IsOk(status) == 200 <= status /\ status <= 299

JsonResponse(status, body) ==
    [status |-> status, contentType |-> <<"application/json">>, kind |-> "json", body |-> body]

(* url.searchParams.get('endpoint') || '' *)
EndpointOf(q) == OrElse(q.endpoint, "")

ConfigurationError == JsonResponse(500, [error |-> "Configuration error"])
InvalidEndpoint == JsonResponse(400, [error |-> "Invalid endpoint"])
ProxyError == JsonResponse(500, [error |-> "Proxy error"])

(* the key test: !SPITCH_API_KEY *)
KeyMissing == apiKey = NoValue \/ apiKey = ""

(* a variant that never validates the endpoint *)
EarlyResponseKeyOnly == IF KeyMissing THEN ConfigurationError ELSE NoRecord

(* The checks made before the body is read: the response they produce, or  *)
(* NoRecord when the request passes them.                                  *)
EarlyResponse ==
    IF rev = 1
    THEN IF KeyMissing THEN ConfigurationError
         ELSE IF EndpointOf(req) \notin allowedEndpoints(rev) THEN InvalidEndpoint
         ELSE NoRecord
    ELSE IF EndpointOf(req) \notin allowedEndpoints(rev) THEN InvalidEndpoint
         ELSE IF KeyMissing THEN ConfigurationError
         ELSE NoRecord

(* a variant that copies the incoming Content-Type onto a multipart request *)
UpstreamRequestKeepsContentType ==
    LET base == [method |-> "POST",
                 endpoint |-> EndpointOf(req),
                 authorization |-> <<"Bearer ", apiKey>>]
    IN  IF Includes(req.contentType, "multipart/form-data")
        THEN base @@ [bodyKind |-> "form", body |-> req.body,
                      contentType |-> req.contentType]
        ELSE IF Includes(req.contentType, "application/json")
        THEN base @@ [bodyKind |-> "text", body |-> req.body,
                      contentType |-> <<"application/json">>]
        ELSE base @@ [bodyKind |-> "none", body |-> NoValue, contentType |-> NoHeader]

(* the fetch(...) call the handler makes for the request that passed the checks *)
UpstreamRequest ==
    LET base == [method |-> "POST",
                 endpoint |-> EndpointOf(req),
                 authorization |-> <<"Bearer ", apiKey>>]
    IN  IF Includes(req.contentType, "multipart/form-data")
        THEN base @@ [bodyKind |-> "form", body |-> req.body, contentType |-> NoHeader]
        ELSE IF Includes(req.contentType, "application/json")
        THEN base @@ [bodyKind |-> "text", body |-> req.body,
                      contentType |-> <<"application/json">>]
        ELSE base @@ [bodyKind |-> "none", body |-> NoValue, contentType |-> NoHeader]

InitProxy ==
    /\ ScoreIdle /\ LessonIdle /\ RetryIdle /\ GeminiIdle /\ PronounceIdle /\ SpeechIdle /\ AuthIdle
    /\ ConvIdle
    /\ rev \in Revisions
    /\ apiKey \in ApiKeys
    /\ req \in Requests
    /\ ppc = "recv"
    /\ upReq = NoRecord
    /\ upResp = NoRecord
    /\ presp = NoRecord

(* CORS preflight *)
ServeOptions ==
    /\ ppc = "recv"
    /\ req.method = "OPTIONS"
    /\ presp' = [status |-> 200, contentType |-> NoHeader, kind |-> "text", body |-> "ok"]
    /\ ppc' = "responded"
    /\ UNCHANGED <<rev, apiKey, req, upReq, upResp, notProxy>>

(* the key or the endpoint is refused *)
ServeRefuse ==
    /\ ppc = "recv"
    /\ req.method # "OPTIONS"
    /\ EarlyResponse # NoRecord
    /\ presp' = EarlyResponse
    /\ ppc' = "responded"
    /\ UNCHANGED <<rev, apiKey, req, upReq, upResp, notProxy>>

(* req.formData() throws: the catch block answers *)
ServeFormDataThrows ==
    /\ ppc = "recv"
    /\ req.method # "OPTIONS"
    /\ EarlyResponse = NoRecord
    /\ Includes(req.contentType, "multipart/form-data")
    /\ ~req.formOk
    /\ presp' = ProxyError
    /\ ppc' = "responded"
    /\ UNCHANGED <<rev, apiKey, req, upReq, upResp, notProxy>>

(* the body is read and the upstream fetch is issued *)
ServeFetch ==
    /\ ppc = "recv"
    /\ req.method # "OPTIONS"
    /\ EarlyResponse = NoRecord
    /\ Includes(req.contentType, "multipart/form-data") => req.formOk
    /\ upReq' = UpstreamRequest
    /\ ppc' = "fetching"
    /\ UNCHANGED <<rev, apiKey, req, upResp, presp, notProxy>>

(* fetch rejects (network failure): the catch block answers *)
FetchRejects ==
    /\ ppc = "fetching"
    /\ presp' = ProxyError
    /\ ppc' = "responded"
    /\ UNCHANGED <<rev, apiKey, req, upReq, upResp, notProxy>>

(* the upstream API answers *)
FetchResolves ==
    /\ ppc = "fetching"
    /\ upResp' \in UpstreamResponses
    /\ ppc' = "replied"
    /\ UNCHANGED <<rev, apiKey, req, upReq, presp, notProxy>>

(* the error body built from a non-ok upstream response *)
UpstreamErrorBody(r) ==
    IF JSONParses(r.body)
    THEN LET errorJson == JSONParse(r.body)
         IN  [error |-> "Spitch API Error",
              status |-> r.status,
              message |-> OrElse(Field(errorJson, "message"),
                                 OrElse(Field(errorJson, "detail"), r.body)),
              details |-> errorJson]
    ELSE [error |-> "Spitch API Error", status |-> r.status, message |-> r.body]

(* a variant that tests for application/json before audio *)
ResponseForJsonFirst(r) ==
    IF ~IsOk(r.status) THEN JsonResponse(r.status, UpstreamErrorBody(r))
    ELSE IF Includes(r.contentType, "application/json")
    THEN IF JSONParses(r.body)
         THEN JsonResponse(200, JSONParse(r.body))
         ELSE ProxyError
    ELSE IF Includes(r.contentType, "audio")
    THEN [status |-> 200, contentType |-> r.contentType, kind |-> "bytes", body |-> r.body]
    ELSE [status |-> 200,
          contentType |-> IF r.contentType = NoHeader THEN <<"text/plain">> ELSE r.contentType,
          kind |-> "text", body |-> r.body]

(* the response built from the upstream response; a response of kind      *)
(* "json" holds the object that JSON.stringify writes to the wire          *)
ResponseFor(r) ==
    IF ~IsOk(r.status) THEN JsonResponse(r.status, UpstreamErrorBody(r))
    ELSE IF Includes(r.contentType, "audio")
    THEN [status |-> 200, contentType |-> r.contentType, kind |-> "bytes", body |-> r.body]
    ELSE IF Includes(r.contentType, "application/json")
    THEN IF JSONParses(r.body)
         THEN JsonResponse(200, JSONParse(r.body))
         ELSE ProxyError
    ELSE [status |-> 200,
          contentType |-> IF r.contentType = NoHeader THEN <<"text/plain">> ELSE r.contentType,
          kind |-> "text", body |-> r.body]

Respond ==
    /\ ppc = "replied"
    /\ presp' = ResponseFor(upResp)
    /\ ppc' = "responded"
    /\ UNCHANGED <<rev, apiKey, req, upReq, upResp, notProxy>>

NextProxy ==
    \/ ServeOptions
    \/ ServeRefuse
    \/ ServeFormDataThrows
    \/ ServeFetch
    \/ FetchRejects
    \/ FetchResolves
    \/ Respond

SpecProxy == InitProxy /\ [][NextProxy]_vars

-----------------------------------------------------------------------------
(* lessonService.ts: startLesson, completeLesson and updateUserStats of    *)
(* one user against the lessons, user_progress and profiles tables.  Every *)
(* supabase query is one atomic step at the database and may come back     *)
(* with an error; the calls of the two slots interleave at their awaits.   *)

Slots == {1, 2}

(* the lessons table: the seeded reward of 20 XP and 5 cowries, and a      *)
(* second lesson; "L9" is no row of the table                              *)
LessonTable ==
    [L1 |-> [xp_reward |-> 20, cowrie_reward |-> 5],
     L2 |-> [xp_reward |-> 50, cowrie_reward |-> 10]]

LessonIds == DOMAIN LessonTable
LessonArgs == LessonIds \cup {"L9"}

(* scores passed to completeLesson; 85 is what LearningPage passes.  For   *)
(* these scores and the rewards above, reward * (score / 100) in double    *)
(* precision equals the exact product.                                     *)
Scores == {50, 85, 100}

(* Math.round(n / d) for n >= 0: the nearest integer, halves upwards *)
MathRoundDiv(n, d) == (2 * n + d) \div (2 * d)

(* Math.round(reward * scorePercentage) *)
earned(reward, score) == MathRoundDiv(reward * score, 100)

NoTime == 0

IdleCall ==
    [pc |-> "idle", op |-> NoValue, lesson |-> NoValue, score |-> 0,
     earnedXP |-> 0, earnedCowries |-> 0, readXP |-> 0, readShells |-> 0,
     at |-> NoTime, ret |-> FALSE, alone |-> TRUE, xpBefore |-> 0, shellsBefore |-> 0,
     rowBefore |-> NoRecord]

Busy(c) == calls[c].pc # "idle"

EmptyLedger ==
    [completeTrue |-> 0, completeFalse |-> 0, sumXP |-> 0, sumCowries |-> 0,
     queryFailed |-> FALSE]

(* the profile row before the first call *)
InitialProfile == [total_xp |-> 120, cowrie_shells |-> 30]

InitLesson ==
    /\ ScoreIdle /\ ProxyIdle /\ RetryIdle /\ GeminiIdle /\ PronounceIdle /\ SpeechIdle /\ AuthIdle
    /\ ConvIdle
    /\ progress = [l \in LessonIds |-> NoRecord]
    /\ profile = InitialProfile
    /\ calls = [c \in Slots |-> IdleCall]
    /\ ncalls = 0
    /\ ledger = EmptyLedger

(* a call begins in the first free slot: its arguments, its time, the      *)
(* profile as it is, and whether the call has a slot in use beside it      *)
Begin(c, op, lesson, score) ==
    /\ calls[c].pc = "idle"
    /\ \A d \in Slots : d < c => calls[d].pc # "idle"
    /\ ncalls < MaxCalls
    /\ ncalls' = ncalls + 1
    /\ calls' = [d \in Slots |->
                   IF d = c
                   THEN [IdleCall EXCEPT
                           !.pc = IF op = "startLesson" THEN "sl_insert" ELSE "cl_lesson",
                           !.op = op, !.lesson = lesson, !.score = score,
                           !.at = ncalls + 1,
                           !.alone = \A e \in Slots \ {c} : ~Busy(e),
                           !.xpBefore = profile.total_xp,
                           !.shellsBefore = profile.cowrie_shells,
                           !.rowBefore = IF lesson \in LessonIds THEN progress[lesson]
                                         ELSE NoRecord]
                   ELSE IF Busy(d) THEN [calls[d] EXCEPT !.alone = FALSE]
                   ELSE calls[d]]
    /\ UNCHANGED <<progress, profile, ledger, notLesson>>

CallStartLesson(c) == \E l \in LessonArgs : Begin(c, "startLesson", l, 0)

CallCompleteLesson(c) ==
    \E l \in LessonArgs : \E sc \in Scores : Begin(c, "completeLesson", l, sc)

QueryFails == [ledger EXCEPT !.queryFailed = TRUE]

(* startLesson: insert(...).select().single() *)
StartInsert(c) ==
    /\ calls[c].pc = "sl_insert"
    /\ LET l == calls[c].lesson IN
       \/ /\ l \in LessonIds
          /\ progress[l] = NoRecord
          /\ progress' = [progress EXCEPT ![l] =
                            [completed |-> FALSE, score |-> 0, xp_earned |-> 0,
                             cowries_earned |-> 0, started_at |-> calls[c].at,
                             completed_at |-> NoTime]]
          /\ calls' = [calls EXCEPT ![c].pc = "returned", ![c].ret = TRUE]
          /\ UNCHANGED ledger
       \/ /\ l \in LessonIds                 \* error.code === '23505'
          /\ progress[l] # NoRecord
          /\ calls' = [calls EXCEPT ![c].pc = "sl_update"]
          /\ UNCHANGED <<progress, ledger>>
       \/ /\ calls' = [calls EXCEPT ![c].pc = "returned", ![c].ret = FALSE]
          /\ ledger' = IF l \in LessonIds THEN QueryFails ELSE ledger
          /\ UNCHANGED progress
    /\ UNCHANGED <<profile, ncalls, notLesson>>

(* a variant that writes the whole row of the insert again *)
StartUpdateWholeRow(c) ==
    /\ calls[c].pc = "sl_update"
    /\ \/ /\ progress' = [progress EXCEPT ![calls[c].lesson] =
                            [completed |-> FALSE, score |-> 0, xp_earned |-> 0,
                             cowries_earned |-> 0, started_at |-> calls[c].at,
                             completed_at |-> NoTime]]
          /\ calls' = [calls EXCEPT ![c].pc = "returned", ![c].ret = TRUE]
          /\ UNCHANGED ledger
       \/ /\ calls' = [calls EXCEPT ![c].pc = "returned", ![c].ret = FALSE]
          /\ ledger' = QueryFails
          /\ UNCHANGED progress
    /\ UNCHANGED <<profile, ncalls, notLesson>>

(* startLesson: update({started_at}) after the duplicate key *)
StartUpdate(c) ==
    /\ calls[c].pc = "sl_update"
    /\ \/ /\ progress' = [progress EXCEPT ![calls[c].lesson].started_at = calls[c].at]
          /\ calls' = [calls EXCEPT ![c].pc = "returned", ![c].ret = TRUE]
          /\ UNCHANGED ledger
       \/ /\ calls' = [calls EXCEPT ![c].pc = "returned", ![c].ret = FALSE]
          /\ ledger' = QueryFails
          /\ UNCHANGED progress
    /\ UNCHANGED <<profile, ncalls, notLesson>>

(* completeLesson: the lesson's rewards are read and the earned amounts computed *)
CompleteSelectLesson(c) ==
    /\ calls[c].pc = "cl_lesson"
    /\ LET l == calls[c].lesson IN
       \/ /\ l \in LessonIds
          /\ calls' = [calls EXCEPT
                         ![c].pc = "cl_upsert",
                         ![c].earnedXP = earned(LessonTable[l].xp_reward, calls[c].score),
                         ![c].earnedCowries =
                             earned(LessonTable[l].cowrie_reward, calls[c].score)]
          /\ UNCHANGED ledger
       \/ /\ calls' = [calls EXCEPT ![c].pc = "returned", ![c].ret = FALSE]     \* !lesson
          /\ ledger' = [(IF l \in LessonIds THEN QueryFails ELSE ledger) EXCEPT
                          !.completeFalse = @ + 1]
    /\ UNCHANGED <<progress, profile, ncalls, notLesson>>

(* the row an upsert on (user_id, lesson_id) leaves: the columns it names  *)
(* are written, started_at stays as it was                                 *)
Upserted(old, c) ==
    [completed |-> TRUE, score |-> calls[c].score, xp_earned |-> calls[c].earnedXP,
     cowries_earned |-> calls[c].earnedCowries,
     started_at |-> IF old = NoRecord THEN NoTime ELSE old.started_at,
     completed_at |-> calls[c].at]

CompleteUpsert(c) ==
    /\ calls[c].pc = "cl_upsert"
    /\ \/ /\ progress' = [progress EXCEPT ![calls[c].lesson] = Upserted(@, c)]
          /\ calls' = [calls EXCEPT ![c].pc = "us_select"]
          /\ UNCHANGED ledger
       \/ /\ calls' = [calls EXCEPT ![c].pc = "returned", ![c].ret = FALSE]      \* error
          /\ ledger' = [QueryFails EXCEPT !.completeFalse = @ + 1]
          /\ UNCHANGED progress
    /\ UNCHANGED <<profile, ncalls, notLesson>>

(* updateUserStats: the profile is read *)
StatsSelect(c) ==
    /\ calls[c].pc = "us_select"
    /\ \/ /\ calls' = [calls EXCEPT ![c].pc = "us_update",
                                    ![c].readXP = profile.total_xp,
                                    ![c].readShells = profile.cowrie_shells]
          /\ UNCHANGED ledger
       \/ /\ calls' = [calls EXCEPT ![c].pc = "cl_return"]                       \* !profile
          /\ ledger' = QueryFails
    /\ UNCHANGED <<progress, profile, ncalls, notLesson>>

(* the profile row written: the values read earlier plus the earned amounts *)
StatsWritten(c) ==
    [total_xp |-> calls[c].readXP + calls[c].earnedXP,
     cowrie_shells |-> calls[c].readShells + calls[c].earnedCowries]

(* updateUserStats: the profile is written; an error of the update is not looked at *)
StatsUpdate(c) ==
    /\ calls[c].pc = "us_update"
    /\ \/ /\ profile' = StatsWritten(c)
          /\ UNCHANGED ledger
       \/ /\ ledger' = QueryFails
          /\ UNCHANGED profile
    /\ calls' = [calls EXCEPT ![c].pc = "cl_return"]
    /\ UNCHANGED <<progress, ncalls, notLesson>>

(* completeLesson: return true *)
CompleteReturn(c) ==
    /\ calls[c].pc = "cl_return"
    /\ calls' = [calls EXCEPT ![c].pc = "returned", ![c].ret = TRUE]
    /\ ledger' = [ledger EXCEPT !.completeTrue = @ + 1,
                                !.sumXP = @ + calls[c].earnedXP,
                                !.sumCowries = @ + calls[c].earnedCowries]
    /\ UNCHANGED <<progress, profile, ncalls, notLesson>>

(* the caller has its result; the slot is free again *)
Release(c) ==
    /\ calls[c].pc = "returned"
    /\ calls' = [calls EXCEPT ![c] = IdleCall]
    /\ UNCHANGED <<progress, profile, ncalls, ledger, notLesson>>

NextLesson ==
    \E c \in Slots :
        \/ CallStartLesson(c)
        \/ CallCompleteLesson(c)
        \/ StartInsert(c)
        \/ StartUpdate(c)
        \/ CompleteSelectLesson(c)
        \/ CompleteUpsert(c)
        \/ StatsSelect(c)
        \/ StatsUpdate(c)
        \/ CompleteReturn(c)
        \/ Release(c)

SpecLesson == InitLesson /\ [][NextLesson]_vars

-----------------------------------------------------------------------------
(* gemini.service.ts: retryWithBackoff(fn, maxRetries).  fn resolves with  *)
(* a value or rejects with an error; both are recorded as fn settles.      *)

FnValues == {"value-1", "value-2"}
FnErrors == {"error-1", "error-2"}

(* a variant that backs off linearly *)
BackoffDelayLinear(i) == (i + 1) * 1000

(* Math.pow(2, i) * 1000 *)
BackoffDelay(i) == (2 ^ i) * 1000

InitRetry ==
    /\ ScoreIdle /\ ProxyIdle /\ LessonIdle /\ GeminiIdle /\ PronounceIdle /\ SpeechIdle /\ AuthIdle
    /\ ConvIdle
    /\ maxRetries \in 0..MaxRetriesArg
    /\ ri = 0
    /\ rpc = "loop"
    /\ rCalls = <<>>
    /\ rWaits = <<>>
    /\ rInFlight = 0
    /\ rResult = NoRecord

(* the loop test holds: fn is invoked and awaited *)
RetryInvoke ==
    /\ rpc = "loop"
    /\ ri < maxRetries
    /\ rInFlight' = rInFlight + 1
    /\ rpc' = "calling"
    /\ UNCHANGED <<maxRetries, ri, rCalls, rWaits, rResult, notRetry>>

(* the loop test fails: throw new Error('Max retries exceeded') *)
RetryExhausted ==
    /\ rpc = "loop"
    /\ ~(ri < maxRetries)
    /\ rResult' = [ok |-> FALSE, value |-> "Max retries exceeded"]
    /\ rpc' = "rejected"
    /\ UNCHANGED <<maxRetries, ri, rCalls, rWaits, rInFlight, notRetry>>

(* fn resolves: return await fn() *)
FnResolves ==
    /\ rpc = "calling"
    /\ \E v \in FnValues :
          /\ rCalls' = Append(rCalls, [ok |-> TRUE, value |-> v])
          /\ rResult' = [ok |-> TRUE, value |-> v]
    /\ rInFlight' = rInFlight - 1
    /\ rpc' = "resolved"
    /\ UNCHANGED <<maxRetries, ri, rWaits, notRetry>>

(* fn rejects on the last turn of the loop: throw error *)
FnRejectsLast ==
    /\ rpc = "calling"
    /\ ri = maxRetries - 1
    /\ \E e \in FnErrors :
          /\ rCalls' = Append(rCalls, [ok |-> FALSE, value |-> e])
          /\ rResult' = [ok |-> FALSE, value |-> e]
    /\ rInFlight' = rInFlight - 1
    /\ rpc' = "rejected"
    /\ UNCHANGED <<maxRetries, ri, rWaits, notRetry>>

(* fn rejects on an earlier turn: the timer is set *)
FnRejectsEarlier ==
    /\ rpc = "calling"
    /\ ri # maxRetries - 1
    /\ \E e \in FnErrors : rCalls' = Append(rCalls, [ok |-> FALSE, value |-> e])
    /\ rWaits' = Append(rWaits, BackoffDelay(ri))
    /\ rInFlight' = rInFlight - 1
    /\ rpc' = "waiting"
    /\ UNCHANGED <<maxRetries, ri, rResult, notRetry>>

(* the timer fires: i++ *)
TimerFires ==
    /\ rpc = "waiting"
    /\ ri' = ri + 1
    /\ rpc' = "loop"
    /\ UNCHANGED <<maxRetries, rCalls, rWaits, rInFlight, rResult, notRetry>>

NextRetry ==
    \/ RetryInvoke
    \/ RetryExhausted
    \/ FnResolves
    \/ FnRejectsLast
    \/ FnRejectsEarlier
    \/ TimerFires

(* every promise of fn settles and every timer fires *)
SpecRetry == InitRetry /\ [][NextRetry]_vars /\ WF_vars(NextRetry)

-----------------------------------------------------------------------------
(* gemini.service.ts: generateStory and startConversation.  The text of a  *)
(* Gemini response is a sequence of fragments: code fences, line breaks    *)
(* and payloads.                                                           *)

(* the opening fence with its language tag and line break, and the bare  *)
(* fence of three backticks                                              *)
FenceJson == "[fence]json\n"
Fence == "[fence]"
LineBreak == "\n"

PayloadStory == "{\"title\":\"A story\"}"
PayloadGreeting == "{\"text\":\"Bawo ni\",\"translation\":\"How are you\"}"
PayloadNoTranslation == "{\"text\":\"Bawo ni\"}"
PayloadEmptyText == "{\"text\":\"\",\"translation\":\"How are you\"}"
PayloadNull == "null"
PayloadProse == "Here is your story"

GeminiTexts ==
    {<<PayloadStory>>,
     <<FenceJson, PayloadStory, LineBreak, Fence>>,
     <<PayloadGreeting>>,
     <<Fence, LineBreak, PayloadGreeting, LineBreak, Fence, LineBreak>>,
     <<PayloadNoTranslation>>,
     <<PayloadEmptyText>>,
     <<PayloadNull>>,
     <<PayloadProse>>,
     <<PayloadProse, LineBreak, FenceJson, PayloadStory, Fence>>,
     <<>>}

(* replace(/[fence]json?\n?/g, '').replace(/[fence]\n?/g, ''): a line    *)
(* break that follows a fence goes with it                                *)
RECURSIVE StripFences(_)
StripFences(t) ==
    IF t = <<>> THEN <<>>
    ELSE IF Head(t) \in {FenceJson, Fence}
         THEN IF Len(t) >= 2 /\ Head(t) = Fence /\ t[2] = LineBreak
              THEN StripFences(Tail(Tail(t)))
              ELSE StripFences(Tail(t))
         ELSE <<Head(t)>> \o StripFences(Tail(t))

(* String.prototype.trim *)
RECURSIVE Trim(_)
Trim(t) ==
    IF t = <<>> THEN <<>>
    ELSE IF Head(t) = LineBreak THEN Trim(Tail(t))
    ELSE IF t[Len(t)] = LineBreak THEN Trim(SubSeq(t, 1, Len(t) - 1))
    ELSE t

(* JSON.parse of the cleaned text, as parseJSONSafely returns it: the      *)
(* object, or NoRecord for null, which is also what a parse error gives    *)
parseJSONSafely(t) ==
    LET cleaned == Trim(StripFences(t)) IN
    IF cleaned = <<PayloadStory>> THEN [title |-> "A story"]
    ELSE IF cleaned = <<PayloadGreeting>>
    THEN [text |-> "Bawo ni", translation |-> "How are you"]
    ELSE IF cleaned = <<PayloadNoTranslation>> THEN [text |-> "Bawo ni"]
    ELSE IF cleaned = <<PayloadEmptyText>> THEN [text |-> "", translation |-> "How are you"]
    ELSE NoRecord

(* whether JSON.parse of the cleaned text throws *)
CleanedTextParses(t) ==
    Trim(StripFences(t)) \in {<<PayloadStory>>, <<PayloadGreeting>>, <<PayloadNoTranslation>>,
                              <<PayloadEmptyText>>, <<PayloadNull>>}

(* truthiness of a property of a parsed object *)
Truthy(obj, key) == Field(obj, key) \notin {NoValue, ""}

stories ==
    [Yoruba |-> [title |-> "Ijapa ati Ekun", moralLesson |-> "Ogbon ju agbara lo"],
     Igbo |-> [title |-> "Mbe na Enyi", moralLesson |-> "Amamihe ka ike"],
     Hausa |-> [title |-> "Kunkuru da Zaki", moralLesson |-> "Hikima ta fi karfi"]]

greetings ==
    [Yoruba |->
        [greetings |-> [text |-> "E kaaaro! Bawo ni ebi re?",
                        translation |-> "Good morning! How is your family?"],
         market |-> [text |-> "E kaaaro! Se e ti lo si oja lonii?",
                     translation |-> "Good morning! Have you been to the market today?"],
         food |-> [text |-> "E kaaaro! Ki ni e je lowuuro yii?",
                   translation |-> "Good morning! What did you eat this morning?"]],
     Igbo |->
        [greetings |-> [text |-> "Ututu oma! Kedu ka ndi ezinaulo gi mere?",
                        translation |-> "Good morning! How is your family?"],
         market |-> [text |-> "Ututu oma! I gara ahia taa?",
                     translation |-> "Good morning! Did you go to the market today?"],
         food |-> [text |-> "Ututu oma! Gini ka i riri n'ututu a?",
                   translation |-> "Good morning! What did you eat this morning?"]],
     Hausa |->
        [greetings |-> [text |-> "Sannu! Ya gida?",
                        translation |-> "Hello! How is the family/household?"],
         market |-> [text |-> "Sannu! Kun je kasuwa yau?",
                     translation |-> "Hello! Did you go to the market today?"],
         food |-> [text |-> "Sannu! Me kuka ci da safe?",
                   translation |-> "Hello! What did you eat this morning?"]]]

(* stories[language] || stories.Yoruba *)
getFallbackStory(language) ==
    IF language \in DOMAIN stories THEN stories[language] ELSE stories.Yoruba

(* a variant whose default language is Yoruba *)
getFallbackGreetingDefaultYoruba(language, topic) ==
    LET langGreetings == IF language \in DOMAIN greetings
                         THEN greetings[language] ELSE greetings.Yoruba
    IN  IF topic \in DOMAIN langGreetings THEN langGreetings[topic]
        ELSE langGreetings.greetings

(* greetings[language] || greetings.Hausa, then [topic] || .greetings *)
getFallbackGreeting(language, topic) ==
    LET langGreetings == IF language \in DOMAIN greetings
                         THEN greetings[language] ELSE greetings.Hausa
    IN  IF topic \in DOMAIN langGreetings THEN langGreetings[topic]
        ELSE langGreetings.greetings

(* the language names the components pass, and the topics *)
GeminiLanguages == {"Yoruba", "Igbo", "Hausa", "English"}
GeminiTopics == {"greetings", "market", "food", "Market Shopping"}

InitGemini ==
    /\ ScoreIdle /\ ProxyIdle /\ LessonIdle /\ RetryIdle /\ PronounceIdle /\ SpeechIdle /\ AuthIdle
    /\ ConvIdle
    /\ gOp \in {"generateStory", "startConversation"}
    /\ gLang \in GeminiLanguages
    /\ gTopic \in GeminiTopics
    /\ gpc = "awaiting"
    /\ gReply = NoRecord
    /\ gResult = NoRecord

(* what the try block returns for a response text *)
ReturnedFor(op, language, topic, t) ==
    LET parsed == parseJSONSafely(t) IN
    IF op = "generateStory"
    THEN IF parsed # NoRecord THEN parsed ELSE getFallbackStory(language)
    ELSE IF parsed # NoRecord /\ Truthy(parsed, "text") /\ Truthy(parsed, "translation")
         THEN parsed
         ELSE getFallbackGreeting(language, topic)

(* generateContent, result.response or response.text() throws: the catch block *)
GeminiCallRejects ==
    /\ gpc = "awaiting"
    /\ gReply' = [ok |-> FALSE, text |-> <<>>]
    /\ gResult' = IF gOp = "generateStory"
                  THEN getFallbackStory(gLang)
                  ELSE getFallbackGreeting(gLang, gTopic)
    /\ gpc' = "resolved"
    /\ UNCHANGED <<gOp, gLang, gTopic, notGemini>>

(* the response text arrives and is parsed *)
GeminiCallResolves ==
    /\ gpc = "awaiting"
    /\ \E t \in GeminiTexts :
          /\ gReply' = [ok |-> TRUE, text |-> t]
          /\ gResult' = ReturnedFor(gOp, gLang, gTopic, t)
    /\ gpc' = "resolved"
    /\ UNCHANGED <<gOp, gLang, gTopic, notGemini>>

NextGemini ==
    \/ GeminiCallRejects
    \/ GeminiCallResolves

SpecGemini == InitGemini /\ [][NextGemini]_vars

-----------------------------------------------------------------------------
(* spitch.service.ts: analyzePronunciation.  Numbers are kept as quotients *)
(* (num, den) with den > 0.                                                *)

AtLeast(q, n, d) == q.num * d >= n * q.den
Below(q, n, d) == q.num * d < n * q.den
Times(q, n, d) == [num |-> q.num * n, den |-> q.den * d]

(* audioBlob.type, as fragments for .includes('webm') *)
BlobTypes == {<<"audio/", "webm">>, <<"audio/", "webm", ";codecs=opus">>, <<"audio/", "wav">>}
WavType == <<"audio/", "wav">>

PronounceLanguages == {"yo", "ig", "ha", "en"}

ExpectedTexts ==
    {<<"a", " ", "b">>, <<"A", "b", " ", "a">>, <<"A", "b", " ", "A", "b">>, <<"a">>}

TranscribedTexts ==
    {<<"a", " ", "b">>, <<"a">>, <<"b", "a", " ", "a">>, <<"a", "b", " ", "a", "b">>, <<>>}

(* what response.json() meets: an object with a text, an object without    *)
(* one, the JSON null, or a body that is not JSON                          *)
TranscriptionBodies ==
    {[kind |-> "object", text |-> t] : t \in TranscribedTexts}
        \cup {[kind |-> k, text |-> <<>>] : k \in {"objectWithoutText", "null", "notJson"}}

IsUpper(c) == c = "A"
IsLower(c) == c \in {"a", "b"}

(* the end of the run of [a-z] that starts at i *)
RECURSIVE LowerRunEnd(_, _)
LowerRunEnd(s, i) ==
    IF i < Len(s) /\ IsLower(s[i + 1]) THEN LowerRunEnd(s, i + 1) ELSE i

(* text.match(/([A-Z][a-z]+)/g), added to a Set in order of first match *)
RECURSIVE SpecialWordsFrom(_, _, _)
SpecialWordsFrom(s, i, words) ==
    IF i > Len(s) THEN words
    ELSE IF IsUpper(s[i]) /\ i < Len(s) /\ IsLower(s[i + 1])
         THEN LET e == LowerRunEnd(s, i + 1)
                  word == SubSeq(s, i, e)
              IN  SpecialWordsFrom(s, e + 1,
                      IF \E k \in 1..Len(words) : words[k] = word
                      THEN words ELSE Append(words, word))
         ELSE SpecialWordsFrom(s, i + 1, words)

extractSpecialWords(text) == SpecialWordsFrom(text, 1, <<>>)

(* Array.prototype.join(",") *)
RECURSIVE JoinComma(_)
JoinComma(words) ==
    IF words = <<>> THEN <<>>
    ELSE IF Len(words) = 1 THEN words[1]
    ELSE words[1] \o <<",">> \o JoinComma(Tail(words))

(* the FormData of lines 237-245 *)
FormFor(blobType, expectedText, language) ==
    LET specialWords == extractSpecialWords(expectedText)
        base == [content |-> blobType, filename |-> "recording.wav",
                 language |-> language, model |-> "legacy"]
    IN  IF Len(specialWords) > 0
        THEN [f \in DOMAIN base \cup {"special_words"} |->
                 IF f = "special_words" THEN JoinComma(specialWords) ELSE base[f]]
        ELSE base

(* Math.min(transcribedWords / expectedWords, 1) *)
calculateCompleteness(transcribed, expected) ==
    LET transcribedWords == Len(SplitWhitespace(transcribed))
        expectedWords == Len(SplitWhitespace(expected))
    IN  [num |-> Min2(transcribedWords, expectedWords), den |-> expectedWords]

Message(msg) == [msg |-> msg, word |-> <<>>]

(* the for loop of the lowest branch, from index i (0-based) *)
RECURSIVE AttentionLoop(_, _, _)
AttentionLoop(transcribedWords, expectedWords, i) ==
    IF i >= Len(expectedWords) THEN <<>>
    ELSE IF \/ i + 1 > Len(transcribedWords)
            \/ transcribedWords[i + 1] = <<>>
            \/ ~wordsMatch(transcribedWords[i + 1], expectedWords[i + 1])
         THEN <<[msg |-> "Pay special attention to pronouncing", word |-> expectedWords[i + 1]]>>
         ELSE AttentionLoop(transcribedWords, expectedWords, i + 1)

generateDetailedFeedback(score, transcribed, expected, language) ==
    IF AtLeast(score, 85, 100)
    THEN <<Message("Excellent pronunciation! Native speakers would understand you perfectly."),
           Message("Your tone and rhythm are very natural.")>>
    ELSE IF AtLeast(score, 7, 10)
    THEN <<Message("Good job! Your pronunciation is clear and understandable.")>>
         \o (IF language = "yo"
             THEN <<Message("Remember that Yoruba is a tonal language")>>
             ELSE IF language = "ig"
             THEN <<Message("Focus on the nasal sounds")>>
             ELSE IF language = "ha"
             THEN <<Message("Work on the glottal stops")>>
             ELSE <<>>)
    ELSE <<Message("Keep practicing! You're making progress."),
           Message("Try listening to the example again and mimic the pronunciation closely.")>>
         \o AttentionLoop(SplitWhitespace(toLowerCase(transcribed)),
                          SplitWhitespace(toLowerCase(expected)), 0)

(* Math.random() is one of 0/RandSteps .. (RandSteps-1)/RandSteps, or one  *)
(* of the largest doubles below 1, written RandSteps: for those the double *)
(* sum 0.75 + r * 0.2 rounds to the double 0.95.                           *)
MathRandom == 0..RandSteps

(* a variant without the 0.75 offset and 0.2 scale *)
MockScoreUnscaled(r) == [num |-> r, den |-> RandSteps]

(* 0.75 + Math.random() * 0.2 *)
MockScore(r) == [num |-> 15 * RandSteps + 4 * r, den |-> 20 * RandSteps]

Simulated == <<" ", "(", "s", "i", "m", "u", "l", "a", "t", "e", "d", ")">>

(* the catch block of lines 289-309 *)
MockResult(r, expectedText, language) ==
    LET mockScore == MockScore(r) IN
    [score |-> mockScore,
     feedback |-> generateDetailedFeedback(mockScore, expectedText \o Simulated,
                                           expectedText, language),
     details |-> [accuracy |-> mockScore,
                  fluency |-> Times(mockScore, 95, 100),
                  completeness |-> [num |-> 9, den |-> 10]]]

(* lines 267-288 *)
RealResult(text, expectedText, language) ==
    LET score == calculatePronunciationScore(text, expectedText) IN
    [score |-> score,
     feedback |-> generateDetailedFeedback(score, text, expectedText, language),
     details |-> [accuracy |-> score,
                  fluency |-> Times(score, 9, 10),
                  completeness |-> calculateCompleteness(text, expectedText)]]

InitPronounce ==
    /\ ScoreIdle /\ ProxyIdle /\ LessonIdle /\ RetryIdle /\ GeminiIdle /\ SpeechIdle /\ AuthIdle
    /\ ConvIdle
    /\ aReq \in [type : BlobTypes, expectedText : ExpectedTexts, language : PronounceLanguages]
    /\ apc = "start"
    /\ aConv = NoValue
    /\ aForm = NoRecord
    /\ aResp = NoRecord
    /\ aResult = NoRecord

(* audioBlob.type has no 'webm': the blob is posted as it is *)
PronounceNoConversion ==
    /\ apc = "start"
    /\ ~Includes(aReq.type, "webm")
    /\ aConv' = "notNeeded"
    /\ aForm' = FormFor(aReq.type, aReq.expectedText, aReq.language)
    /\ apc' = "fetch"
    /\ UNCHANGED <<aReq, aResp, aResult, notPronounce>>

(* convertWebMToWav resolves with the WAV blob *)
PronounceConverted ==
    /\ apc = "start"
    /\ Includes(aReq.type, "webm")
    /\ aConv' = "converted"
    /\ aForm' = FormFor(WavType, aReq.expectedText, aReq.language)
    /\ apc' = "fetch"
    /\ UNCHANGED <<aReq, aResp, aResult, notPronounce>>

(* convertWebMToWav resolves with the original blob (decoding failed) or   *)
(* rejects (the reader failed); the rejection is caught at lines 232-234   *)
PronounceConversionFails ==
    /\ apc = "start"
    /\ Includes(aReq.type, "webm")
    /\ aConv' \in {"decodeFailed", "rejected"}
    /\ aForm' = FormFor(aReq.type, aReq.expectedText, aReq.language)
    /\ apc' = "fetch"
    /\ UNCHANGED <<aReq, aResp, aResult, notPronounce>>

(* fetch rejects: the outer catch block *)
PronounceFetchRejects ==
    /\ apc = "fetch"
    /\ aResp' = [settled |-> "rejected", ok |-> FALSE,
                 body |-> [kind |-> "notJson", text |-> <<>>]]
    /\ \E r \in MathRandom : aResult' = MockResult(r, aReq.expectedText, aReq.language)
    /\ apc' = "resolved"
    /\ UNCHANGED <<aReq, aConv, aForm, notPronounce>>

(* fetch resolves: a non-ok status throws, response.json() throws on a     *)
(* body that is not JSON, and transcription.text of null or                *)
(* undefined.toLowerCase() throw a TypeError                               *)
PronounceFetchResolves ==
    /\ apc = "fetch"
    /\ \E ok \in BOOLEAN, body \in TranscriptionBodies :
          /\ aResp' = [settled |-> "resolved", ok |-> ok, body |-> body]
          /\ IF ok /\ body.kind = "object"
             THEN aResult' = RealResult(body.text, aReq.expectedText, aReq.language)
             ELSE \E r \in MathRandom :
                     aResult' = MockResult(r, aReq.expectedText, aReq.language)
    /\ apc' = "resolved"
    /\ UNCHANGED <<aReq, aConv, aForm, notPronounce>>

NextPronounce ==
    \/ PronounceNoConversion
    \/ PronounceConverted
    \/ PronounceConversionFails
    \/ PronounceFetchRejects
    \/ PronounceFetchResolves

SpecPronounce == InitPronounce /\ [][NextPronounce]_vars

-----------------------------------------------------------------------------
(* spitch.service.ts: generateSpeech and its audioCache.  A text is a      *)
(* sequence of fragments and a cache key the concatenation of the          *)
(* fragments of the template `${language}-${voice || "default"}-${text}`.  *)

CacheLimit == 50

SpeechLanguages == {"yo", "en"}

(* VOICE_MAPPING[language].default *)
DefaultVoice(language) == IF language = "yo" THEN "sade" ELSE "lina"

(* the voice argument: undefined, the empty string of                      *)
(* PronunciationPractice's initial state, or an id of getVoices            *)
SpeechVoices == {NoValue, "", "sade"}

HyphenText == <<"default", "-", "a">>

(* the n-th text of the session *)
ColdText(n) == <<"t", ToString(n)>>

ColdRequest(n) == [text |-> ColdText(n), language |-> "en", voice |-> NoValue]

(* texts asked for again and again, in every language and voice, and the   *)
(* first text of the session *)
WarmRequests ==
    [text : {<<"a">>}, language : SpeechLanguages, voice : SpeechVoices]
        \cup [text : {HyphenText}, language : {"en"}, voice : {NoValue, ""}]
        \cup {ColdRequest(1)}

(* a variant whose key leaves the voice out *)
cacheKeyWithoutVoice(text, language, voice) == <<language, "-">> \o text

(* `${language}-${voice || "default"}-${text}` *)
cacheKey(text, language, voice) ==
    <<language, "-", OrElse(voice, "default"), "-">> \o text

(* Map.prototype.has and get *)
CacheHas(cache, key) == \E i \in 1..Len(cache) : cache[i].key = key
CacheGet(cache, key) == cache[CHOOSE i \in 1..Len(cache) : cache[i].key = key].blob

(* Map.prototype.set: a present key keeps its place and takes the value *)
CacheSet(cache, key, blob) ==
    IF CacheHas(cache, key)
    THEN [i \in 1..Len(cache) |->
             IF cache[i].key = key THEN [key |-> key, blob |-> blob] ELSE cache[i]]
    ELSE Append(cache, [key |-> key, blob |-> blob])

(* a variant that deletes the newest key *)
EvictNewest(cache) ==
    IF Len(cache) > CacheLimit THEN SubSeq(cache, 1, Len(cache) - 1) ELSE cache

(* if (size > 50) delete(keys().next().value) *)
Evict(cache) ==
    IF Len(cache) > CacheLimit THEN Tail(cache) ELSE cache

IdleSpeechCall ==
    [pc |-> "idle", text |-> <<>>, language |-> NoValue, voice |-> NoValue,
     processedText |-> <<>>, hit |-> FALSE, ret |-> NoRecord]

SpeechBusy == \E c \in Slots : sCalls[c].pc # "idle"

InitSpeech ==
    /\ ScoreIdle /\ ProxyIdle /\ LessonIdle /\ RetryIdle /\ GeminiIdle /\ PronounceIdle /\ AuthIdle
    /\ ConvIdle
    /\ audioCache = <<>>
    /\ sCalls = [c \in Slots |-> IdleSpeechCall]
    /\ nextCold = 1
    /\ nSpeech = 0

(* lines 78-90: the cache test, and on a miss the first await *)
SpeechStart(c, r) ==
    LET key == cacheKey(r.text, r.language, r.voice)
        call == [IdleSpeechCall EXCEPT !.text = r.text, !.language = r.language,
                                       !.voice = r.voice, !.processedText = r.text]
    IN  sCalls' = [sCalls EXCEPT ![c] =
            IF CacheHas(audioCache, key)
            THEN [call EXCEPT !.pc = "returned", !.hit = TRUE,
                              !.ret = CacheGet(audioCache, key)]
            ELSE [call EXCEPT !.pc = IF r.language = "yo" THEN "toneMarks" ELSE "fetch"]]

(* a call for the first text that no call has yet got a blob for; these    *)
(* calls come first and one at a time                                      *)
SpeechCallCold(c) ==
    /\ ~SpeechBusy
    /\ c = 1
    /\ nSpeech = 0
    /\ nextCold <= CacheLimit
    /\ SpeechStart(c, ColdRequest(nextCold))
    /\ UNCHANGED <<audioCache, nextCold, nSpeech, notSpeech>>

(* a call for one of the other texts, possibly while another is pending;   *)
(* the first of them finds the cache empty or within one entry of full     *)
SpeechCallWarm(c) ==
    /\ sCalls[c].pc = "idle"
    /\ nSpeech = 0 => (~SpeechBusy /\ (nextCold = 1 \/ Len(audioCache) >= CacheLimit - 1))
    /\ \A d \in Slots : d < c => sCalls[d].pc # "idle"
    /\ nSpeech < MaxSpeechCalls
    /\ \E r \in WarmRequests : SpeechStart(c, r)
    /\ nSpeech' = nSpeech + 1
    /\ UNCHANGED <<audioCache, nextCold, notSpeech>>

(* addToneMarks resolves, with the marked text or, after a failure it      *)
(* swallows, with the text it was given                                    *)
SpeechToneMarks(c) ==
    /\ sCalls[c].pc = "toneMarks"
    /\ \E marked \in BOOLEAN :
          sCalls' = [sCalls EXCEPT ![c].pc = "fetch",
                                   ![c].processedText =
                                       IF marked THEN <<"marked">> \o sCalls[c].text
                                       ELSE sCalls[c].text]
    /\ UNCHANGED <<audioCache, nextCold, nSpeech, notSpeech>>

(* the fetch rejects, the status is not ok, or response.blob() rejects:    *)
(* the error is rethrown at line 126                                       *)
SpeechFetchFails(c) ==
    /\ sCalls[c].pc = "fetch"
    /\ sCalls' = [sCalls EXCEPT ![c].pc = "rejected"]
    /\ UNCHANGED <<audioCache, nextCold, nSpeech, notSpeech>>

(* the blob the proxy answers with, named by the request that made it *)
BlobFor(call) ==
    [text |-> call.processedText, language |-> call.language,
     voice |-> OrElse(call.voice, DefaultVoice(call.language)),
     askedText |-> call.text, askedVoice |-> call.voice]

(* lines 114-122: the response is ok; set, evict, return *)
SpeechFetchOk(c) ==
    /\ sCalls[c].pc = "fetch"
    /\ LET call == sCalls[c]
           audioBlob == BlobFor(call)
       IN  /\ audioCache' = Evict(CacheSet(audioCache,
                                cacheKey(call.text, call.language, call.voice), audioBlob))
           /\ sCalls' = [sCalls EXCEPT ![c].pc = "returned", ![c].ret = audioBlob]
           /\ nextCold' = IF call.text = ColdText(nextCold) THEN nextCold + 1 ELSE nextCold
    /\ UNCHANGED <<nSpeech, notSpeech>>

(* the caller has its blob or its error *)
SpeechRelease(c) ==
    /\ sCalls[c].pc \in {"returned", "rejected"}
    /\ sCalls' = [sCalls EXCEPT ![c] = IdleSpeechCall]
    /\ UNCHANGED <<audioCache, nextCold, nSpeech, notSpeech>>

(* clearCache, here once the calls for the other texts have begun *)
ClearCache ==
    /\ nSpeech > 0
    /\ audioCache # <<>>
    /\ audioCache' = <<>>
    /\ UNCHANGED <<sCalls, nextCold, nSpeech, notSpeech>>

NextSpeech ==
    \/ ClearCache
    \/ \E c \in Slots :
        \/ SpeechCallCold(c)
        \/ SpeechCallWarm(c)
        \/ SpeechToneMarks(c)
        \/ SpeechFetchFails(c)
        \/ SpeechFetchOk(c)
        \/ SpeechRelease(c)

SpecSpeech == InitSpeech /\ [][NextSpeech]_vars

-----------------------------------------------------------------------------
(* AuthContext.tsx, ProtectedRoute.tsx and the routes (part_006).  A       *)
(* session is NoRecord (null) or a record with its user; the token tells   *)
(* sessions of one user apart.                                             *)

AuthUsers == {"u1", "u2"}

(* session?.user ?? null *)
UserOf(session) == IF session = NoRecord THEN NoValue ELSE session.user

Paths == {"/", "/login", "/dashboard", "/learn/yo", "/missing"}

(* a variant that looks at user only *)
ProtectedRouteWithoutLoading(ctx, children) ==
    IF ctx.user = NoValue THEN "NavigateLogin" ELSE children

(* ProtectedRoute, lines 9-25 *)
ProtectedRoute(ctx, children) ==
    IF ctx.loading THEN "Spinner"
    ELSE IF ctx.user = NoValue THEN "NavigateLogin"
    ELSE children

(* AppRoutes: the element of the route that matches *)
AppRoutes(p, ctx) ==
    IF p = "/" THEN "HomePage"
    ELSE IF p = "/login" THEN "LoginPage"
    ELSE IF p = "/dashboard" THEN ProtectedRoute(ctx, "DashboardPage")
    ELSE IF p = "/learn/yo" THEN ProtectedRoute(ctx, "LearningPage")
    ELSE "NavigateHome"

InitAuth ==
    /\ ScoreIdle /\ ProxyIdle /\ LessonIdle /\ RetryIdle /\ GeminiIdle /\ PronounceIdle
    /\ SpeechIdle /\ ConvIdle
    /\ authCtx = [session |-> NoRecord, user |-> NoValue, loading |-> TRUE]
    /\ gsPc = "pending"
    /\ gsValue = NoRecord
    /\ sbSession \in {NoRecord, [user |-> "u1", token |-> 0]}
    /\ authQueue = <<>>
    /\ nAuthEvents = 0
    /\ authFired = FALSE
    /\ path \in Paths
    /\ screen = AppRoutes(path, authCtx)

(* supabase.auth.getSession() settles: with the session of that moment, or *)
(* with an error                                                           *)
GetSessionSettles ==
    /\ gsPc = "pending"
    /\ \/ gsPc' = "resolved" /\ gsValue' = sbSession
       \/ gsPc' = "rejected" /\ gsValue' = gsValue
    /\ UNCHANGED <<authCtx, sbSession, authQueue, nAuthEvents, authFired, path, screen,
                   notAuth>>

(* initAuth after its await: lines 48-49 or the catch, then finally *)
InitAuthContinues ==
    /\ gsPc \in {"resolved", "rejected"}
    /\ authCtx' = IF gsPc = "resolved"
                  THEN [session |-> gsValue, user |-> UserOf(gsValue), loading |-> FALSE]
                  ELSE [authCtx EXCEPT !.loading = FALSE]
    /\ gsPc' = IF gsPc = "resolved" THEN "done" ELSE "failed"
    /\ authFired' = TRUE
    /\ screen' = AppRoutes(path, authCtx')
    /\ UNCHANGED <<gsValue, sbSession, authQueue, nAuthEvents, path, notAuth>>

(* Supabase produces a session: a sign-in, a sign-out, or the current one  *)
(* announced again; the callback of onAuthStateChange is queued            *)
AuthEvent ==
    /\ nAuthEvents < MaxAuthEvents
    /\ \E s \in {NoRecord, sbSession}
                  \cup {[user |-> u, token |-> nAuthEvents + 1] : u \in AuthUsers} :
          /\ sbSession' = s
          /\ authQueue' = Append(authQueue, s)
    /\ nAuthEvents' = nAuthEvents + 1
    /\ UNCHANGED <<authCtx, gsPc, gsValue, authFired, path, screen, notAuth>>

(* the callback of lines 62-66 *)
DeliverAuthEvent ==
    /\ authQueue # <<>>
    /\ authCtx' = [session |-> Head(authQueue), user |-> UserOf(Head(authQueue)),
                   loading |-> FALSE]
    /\ authQueue' = Tail(authQueue)
    /\ authFired' = TRUE
    /\ screen' = AppRoutes(path, authCtx')
    /\ UNCHANGED <<gsPc, gsValue, sbSession, nAuthEvents, path, notAuth>>

(* a rendered <Navigate replace> changes the location *)
FollowNavigate ==
    /\ screen \in {"NavigateLogin", "NavigateHome"}
    /\ path' = IF screen = "NavigateLogin" THEN "/login" ELSE "/"
    /\ screen' = AppRoutes(path', authCtx)
    /\ UNCHANGED <<authCtx, gsPc, gsValue, sbSession, authQueue, nAuthEvents, authFired,
                   notAuth>>

(* the user follows a link or types an address *)
GoTo ==
    /\ screen \notin {"NavigateLogin", "NavigateHome"}
    /\ \E p \in Paths \ {path} :
          /\ path' = p
          /\ screen' = AppRoutes(p, authCtx)
    /\ UNCHANGED <<authCtx, gsPc, gsValue, sbSession, authQueue, nAuthEvents, authFired,
                   notAuth>>

NextAuth ==
    \/ GetSessionSettles
    \/ InitAuthContinues
    \/ AuthEvent
    \/ DeliverAuthEvent
    \/ FollowNavigate
    \/ GoTo

SpecAuth == InitAuth /\ [][NextAuth]_vars

-----------------------------------------------------------------------------
(* ConversationPractice (part_001): startConversation and sendMessage.     *)
(* A message is a record with its role and content; an assistant message   *)
(* also carries the translation and the audio URL.                         *)

UserTexts == {<<>>, <<" ">>, <<"h", "i">>, <<" ", "o">>}

(* what continueConversation resolves with *)
ConversationResponses ==
    {[text |-> "r1", translation |-> "t1"], [text |-> "r2", translation |-> "t2"]}

(* !userInput.trim() *)
IsBlank(t) == \A i \in 1..Len(t) : IsWhitespace(t[i])

(* URL.createObjectURL of the audio generated for a text *)
AudioUrlFor(text) == <<"blob:", text>>

AssistantMessage(response) ==
    [role |-> "assistant", content |-> response.text,
     translation |-> response.translation, audioUrl |-> AudioUrlFor(response.text)]

(* a variant of the catch block that leaves the list alone *)
ConversationAfterErrorKeepsUser(before, current) == current

(* the catch block of sendMessage: setConversation(conversation) *)
ConversationAfterError(before, current) == before

InitConv ==
    /\ ScoreIdle /\ ProxyIdle /\ LessonIdle /\ RetryIdle /\ GeminiIdle /\ PronounceIdle
    /\ SpeechIdle /\ AuthIdle
    /\ conversation = <<>>
    /\ isLoading = FALSE
    /\ userInput = <<>>
    /\ conversationStarted = FALSE
    /\ cpPc = "idle"
    /\ cpCall = NoRecord
    /\ cpOutcome = "none"
    /\ nSends = 0
    /\ nCompleted = 0

(* the Start Conversation button, shown until the conversation has started *)
StartConversation ==
    /\ ~conversationStarted
    /\ ~isLoading
    /\ cpPc = "idle"
    /\ isLoading' = TRUE
    /\ cpPc' = "starting"
    /\ UNCHANGED <<conversation, userInput, conversationStarted, cpCall, cpOutcome, nSends,
                   nCompleted, notConv>>

(* startConversation or generateSpeech rejects: toast, finally *)
StartConversationFails ==
    /\ cpPc = "starting"
    /\ isLoading' = FALSE
    /\ cpPc' = "idle"
    /\ UNCHANGED <<conversation, userInput, conversationStarted, cpCall, cpOutcome, nSends,
                   nCompleted, notConv>>

StartConversationSucceeds ==
    /\ cpPc = "starting"
    /\ \E r \in ConversationResponses : conversation' = <<AssistantMessage(r)>>
    /\ conversationStarted' = TRUE
    /\ isLoading' = FALSE
    /\ cpPc' = "idle"
    /\ UNCHANGED <<userInput, cpCall, cpOutcome, nSends, nCompleted, notConv>>

(* onChange of the input field, or the transcription of a recording; the   *)
(* field and the microphone button are disabled while isLoading            *)
TypeInput ==
    /\ conversationStarted
    /\ ~isLoading
    /\ \E t \in UserTexts \ {userInput} : userInput' = t
    /\ UNCHANGED <<conversation, isLoading, conversationStarted, cpPc, cpCall, cpOutcome,
                   nSends, nCompleted, notConv>>

(* sendMessage up to its first await *)
SendMessage ==
    /\ conversationStarted
    /\ cpPc = "idle"
    /\ nSends < MaxSends
    /\ ~(IsBlank(userInput) \/ isLoading)
    /\ LET userMessage == [role |-> "user", content |-> userInput]
           updatedConversation == Append(conversation, userMessage)
       IN  /\ cpCall' = [conversation |-> conversation,
                         updatedConversation |-> updatedConversation,
                         response |-> NoRecord]
           /\ conversation' = updatedConversation
    /\ userInput' = <<>>
    /\ isLoading' = TRUE
    /\ cpPc' = "reply"
    /\ cpOutcome' = "none"
    /\ nSends' = nSends + 1
    /\ UNCHANGED <<conversationStarted, nCompleted, notConv>>

(* sendMessage with a blank input (Enter in the field): the early return *)
SendMessageReturnsEarly ==
    /\ conversationStarted
    /\ cpPc = "idle"
    /\ IsBlank(userInput) \/ isLoading
    /\ cpOutcome # "ignored"
    /\ cpOutcome' = "ignored"
    /\ UNCHANGED <<conversation, isLoading, userInput, conversationStarted, cpPc, cpCall,
                   nSends, nCompleted, notConv>>

ContinueConversationResolves ==
    /\ cpPc = "reply"
    /\ \E r \in ConversationResponses : cpCall' = [cpCall EXCEPT !.response = r]
    /\ cpPc' = "speech"
    /\ UNCHANGED <<conversation, isLoading, userInput, conversationStarted, cpOutcome,
                   nSends, nCompleted, notConv>>

(* the catch and finally blocks *)
SendMessageFails ==
    /\ conversation' = ConversationAfterError(cpCall.conversation, conversation)
    /\ isLoading' = FALSE
    /\ cpPc' = "idle"
    /\ cpOutcome' = "failed"
    /\ UNCHANGED <<userInput, conversationStarted, cpCall, nSends, nCompleted, notConv>>

ContinueConversationRejects ==
    /\ cpPc = "reply"
    /\ SendMessageFails

GenerateSpeechRejects ==
    /\ cpPc = "speech"
    /\ SendMessageFails

(* the rest of the try block, then finally *)
GenerateSpeechResolves ==
    /\ cpPc = "speech"
    /\ conversation' = Append(conversation, AssistantMessage(cpCall.response))
    /\ nCompleted' = IF Len(cpCall.updatedConversation) >= 6 THEN nCompleted + 1
                     ELSE nCompleted
    /\ isLoading' = FALSE
    /\ cpPc' = "idle"
    /\ cpOutcome' = "ok"
    /\ UNCHANGED <<userInput, conversationStarted, cpCall, nSends, notConv>>

NextConv ==
    \/ StartConversation
    \/ StartConversationFails
    \/ StartConversationSucceeds
    \/ TypeInput
    \/ SendMessage
    \/ SendMessageReturnsEarly
    \/ ContinueConversationResolves
    \/ ContinueConversationRejects
    \/ GenerateSpeechRejects
    \/ GenerateSpeechResolves

SpecConv == InitConv /\ [][NextConv]_vars

-----------------------------------------------------------------------------
(* Edit distance at most 1, stated without the matrix: equal, or one       *)
(* substitution, or one insertion or deletion.                             *)

DropAt(s, k) == [i \in 1..(Len(s) - 1) |-> IF i < k THEN s[i] ELSE s[i + 1]]

OneSubstitution(s, t) ==
    /\ Len(s) = Len(t)
    /\ Cardinality({i \in 1..Len(s) : s[i] # t[i]}) = 1

OneDeletion(long, short) ==
    /\ Len(long) = Len(short) + 1
    /\ \E k \in 1..Len(long) : DropAt(long, k) = short

WithinOneEdit(s, t) ==
    \/ s = t
    \/ OneSubstitution(s, t)
    \/ OneDeletion(s, t)
    \/ OneDeletion(t, s)

(* C1: wordsMatch(a, b) is true iff a and b are identical, or equal after  *)
(* diacritic stripping, or their stripped forms are within edit distance   *)
(* 1; and wordsMatch(a, b) = wordsMatch(b, a).                             *)
C1_WordsMatchRelation ==
    spc = "done" =>
        /\ sres = ( \/ str1 = str2
                    \/ removeToneMarks(str1) = removeToneMarks(str2)
                    \/ WithinOneEdit(removeToneMarks(str1), removeToneMarks(str2)) )
        /\ sres = wordsMatch(str2, str1)

(* a pair that matches only through stripping plus one edit *)
C1_Witness ==
    /\ spc = "done"
    /\ sres = TRUE
    /\ str1 # str2
    /\ removeToneMarks(str1) # removeToneMarks(str2)
    /\ ~WithinOneEdit(str1, str2)

(* C2: the score is (number of aligned indices below min(|T|, |E|) whose     *)
(* tokens match) / max(|T|, |E|); the divisor is never 0, the score lies   *)
(* in [0, 1], and it is 1 exactly when the lists have the same length and  *)
(* every aligned pair matches.                                             *)
C2_ScoreIsMatchedFraction ==
    spc = "done" =>
        LET T == SplitWhitespace(toLowerCase(str1))
            E == SplitWhitespace(toLowerCase(str2))
            matched == {i \in 1..Min2(Len(T), Len(E)) : wordsMatch(T[i], E[i])}
        IN  /\ sres.den = Max2(Len(T), Len(E))
            /\ sres.den # 0
            /\ sres.num = Cardinality(matched)
            /\ 0 <= sres.num /\ sres.num <= sres.den
            /\ (sres.num = sres.den) <=>
                  (Len(T) = Len(E) /\ \A i \in 1..Len(T) : wordsMatch(T[i], E[i]))

(* lists of different lengths with a match and a mismatch among the        *)
(* aligned pairs                                                           *)
C2_Witness ==
    /\ spc = "done"
    /\ sres.num >= 1
    /\ Len(SplitWhitespace(toLowerCase(str1))) # Len(SplitWhitespace(toLowerCase(str2)))
    /\ sres.num < Min2(Len(SplitWhitespace(toLowerCase(str1))),
                       Len(SplitWhitespace(toLowerCase(str2))))

-----------------------------------------------------------------------------
(* spitch-proxy                                                            *)

C3_BadEndpoint == req.method # "OPTIONS" /\ EndpointOf(req) \notin allowedEndpoints(rev)

(* C3 as stated: a non-OPTIONS request whose endpoint is missing or not    *)
(* whitelisted causes no upstream fetch and is answered 400 'Invalid       *)
(* endpoint'; a fetch happens only for a whitelisted endpoint.             *)
C3_InvalidEndpointAlways400 ==
    ppc # "idle" =>
        /\ C3_BadEndpoint =>
              /\ upReq = NoRecord
              /\ ppc = "responded" =>
                    (presp.status = 400 /\ presp.body.error = "Invalid endpoint")
        /\ upReq # NoRecord => upReq.endpoint \in allowedEndpoints(rev)

(* C3 amended: such a request causes no upstream fetch; it is answered 400 *)
(* 'Invalid endpoint', except that revision 1 of the handler, which tests  *)
(* the API key first, answers 500 'Configuration error' when the key is    *)
(* not configured.  A fetch happens only for a whitelisted endpoint.       *)
C3_InvalidEndpointNeverFetched ==
    ppc # "idle" =>
        /\ C3_BadEndpoint =>
              /\ upReq = NoRecord
              /\ ppc = "responded" =>
                    IF rev = 1 /\ KeyMissing
                    THEN presp.status = 500 /\ presp.body.error = "Configuration error"
                    ELSE presp.status = 400 /\ presp.body.error = "Invalid endpoint"
        /\ upReq # NoRecord => upReq.endpoint \in allowedEndpoints(rev)

(* a refused endpoint, in the revision where the key test comes first and  *)
(* the key is configured                                                   *)
C3_Witness ==
    /\ ppc = "responded"
    /\ C3_BadEndpoint
    /\ rev = 1
    /\ ~KeyMissing
    /\ presp.status = 400

(* C8 as stated: an ok upstream response is answered 200 with the body     *)
(* chosen by the upstream content type (audio: the bytes and the upstream  *)
(* Content-Type; else application/json: the upstream JSON; else the text); *)
(* a non-ok upstream response is answered with the same status and a JSON  *)
(* error body.                                                             *)
C8_ResponseByContentType ==
    (ppc = "responded" /\ upResp # NoRecord) =>
        IF IsOk(upResp.status)
        THEN /\ presp.status = 200
             /\ IF Includes(upResp.contentType, "audio")
                THEN /\ presp.kind = "bytes"
                     /\ presp.body = upResp.body
                     /\ presp.contentType = upResp.contentType
                ELSE IF Includes(upResp.contentType, "application/json")
                THEN /\ presp.kind = "json"
                     /\ presp.contentType = <<"application/json">>
                     /\ JSONParses(upResp.body)
                     /\ JSONParse(JSONStringify(presp.body)) = JSONParse(upResp.body)
                ELSE /\ presp.kind = "text"
                     /\ presp.body = upResp.body
        ELSE /\ presp.status = upResp.status
             /\ presp.kind = "json"
             /\ presp.contentType = <<"application/json">>
             /\ presp.body.error = "Spitch API Error"

(* C8 amended: as stated, except that an ok upstream response whose        *)
(* content type contains application/json (and not audio) and whose body   *)
(* does not parse as JSON is answered 500 'Proxy error'.                   *)
C8_ResponseByContentTypeParsed ==
    (ppc = "responded" /\ upResp # NoRecord) =>
        IF IsOk(upResp.status)
        THEN IF Includes(upResp.contentType, "audio")
             THEN /\ presp.status = 200
                  /\ presp.kind = "bytes"
                  /\ presp.body = upResp.body
                  /\ presp.contentType = upResp.contentType
             ELSE IF Includes(upResp.contentType, "application/json")
             THEN IF JSONParses(upResp.body)
                  THEN /\ presp.status = 200
                       /\ presp.kind = "json"
                       /\ presp.contentType = <<"application/json">>
                       /\ JSONParse(JSONStringify(presp.body)) = JSONParse(upResp.body)
                  ELSE /\ presp.status = 500
                       /\ presp.body.error = "Proxy error"
             ELSE /\ presp.status = 200
                  /\ presp.kind = "text"
                  /\ presp.body = upResp.body
        ELSE /\ presp.status = upResp.status
             /\ presp.kind = "json"
             /\ presp.contentType = <<"application/json">>
             /\ presp.body.error = "Spitch API Error"

(* an ok answer whose content type names both application/json and audio  *)
C8_Witness ==
    /\ ppc = "responded"
    /\ upResp # NoRecord
    /\ upResp.status = 201
    /\ Includes(upResp.contentType, "audio")
    /\ Includes(upResp.contentType, "application/json")
    /\ presp.status = 200
    /\ presp.kind = "bytes"

(* C9: every upstream request is a POST to the whitelisted endpoint of the *)
(* incoming request with 'Authorization: Bearer <key>'; it carries a body  *)
(* exactly when the incoming Content-Type contains multipart/form-data     *)
(* (the form data, no Content-Type set) or application/json (the text      *)
(* unchanged, Content-Type application/json).  A Content-Type containing   *)
(* both is read as multipart, which is the first alternative.              *)
C9_UpstreamRequestShape ==
    upReq # NoRecord =>
        LET multipart == Includes(req.contentType, "multipart/form-data")
            json == Includes(req.contentType, "application/json")
        IN  /\ upReq.method = "POST"
            /\ upReq.endpoint = EndpointOf(req)
            /\ upReq.endpoint \in allowedEndpoints(rev)
            /\ ~KeyMissing
            /\ upReq.authorization = <<"Bearer ", apiKey>>
            /\ (upReq.bodyKind # "none") <=> (multipart \/ json)
            /\ multipart =>
                  /\ upReq.bodyKind = "form"
                  /\ upReq.body = req.body
                  /\ upReq.contentType = NoHeader
            /\ (json /\ ~multipart) =>
                  /\ upReq.bodyKind = "text"
                  /\ upReq.body = req.body
                  /\ upReq.contentType = <<"application/json">>
            /\ ~(multipart \/ json) =>
                  /\ upReq.body = NoValue
                  /\ upReq.contentType = NoHeader

(* a multipart request forwarded upstream *)
C9_Witness ==
    /\ upReq # NoRecord
    /\ upReq.bodyKind = "form"
    /\ req.contentType = <<"multipart/form-data", "; boundary=x">>
    /\ upReq.authorization = <<"Bearer ", "key-2">>

-----------------------------------------------------------------------------
(* lessonService                                                           *)

AllIdle == \A c \in Slots : calls[c].pc = "idle"

(* C4 as stated, for calls whose queries all succeed: once two or more     *)
(* completeLesson calls have all returned true, total_xp and cowrie_shells *)
(* are their initial values plus the sums of what the calls earned.        *)
C4_NoAwardLost ==
    (/\ ncalls > 0
     /\ AllIdle
     /\ ledger.completeTrue >= 2
     /\ ledger.completeFalse = 0
     /\ ~ledger.queryFailed) =>
        /\ profile.total_xp = InitialProfile.total_xp + ledger.sumXP
        /\ profile.cowrie_shells = InitialProfile.cowrie_shells + ledger.sumCowries

(* C10 as stated, for a call with no other call beside it: when            *)
(* completeLesson returns true the progress row is completed with the      *)
(* score and the rounded shares of the rewards, and total_xp and           *)
(* cowrie_shells have grown by exactly those shares.                       *)
C10_AwardProportionalToScore ==
    ncalls > 0 =>
        \A c \in Slots :
            (/\ calls[c].pc = "returned"
             /\ calls[c].op = "completeLesson"
             /\ calls[c].ret
             /\ calls[c].alone) =>
                LET l == calls[c].lesson
                    sc == calls[c].score
                    xp == MathRoundDiv(LessonTable[l].xp_reward * sc, 100)
                    cowries == MathRoundDiv(LessonTable[l].cowrie_reward * sc, 100)
                IN  /\ progress[l] # NoRecord
                    /\ progress[l].completed
                    /\ progress[l].score = sc
                    /\ progress[l].xp_earned = xp
                    /\ progress[l].cowries_earned = cowries
                    /\ profile.total_xp = calls[c].xpBefore + xp
                    /\ profile.cowrie_shells = calls[c].shellsBefore + cowries

(* C15 as stated, for a call with no other call beside it: completeLesson  *)
(* returns true only if the progress row is completed and the profile      *)
(* totals have grown by the earned amounts, and when it returns false      *)
(* neither the progress row nor the profile has changed.                   *)
C15_CompleteLessonAllOrNothing ==
    ncalls > 0 =>
        \A c \in Slots :
            (/\ calls[c].pc = "returned"
             /\ calls[c].op = "completeLesson"
             /\ calls[c].alone) =>
                LET l == calls[c].lesson IN
                IF calls[c].ret
                THEN /\ progress[l] # NoRecord
                     /\ progress[l].completed
                     /\ profile.total_xp = calls[c].xpBefore + calls[c].earnedXP
                     /\ profile.cowrie_shells = calls[c].shellsBefore + calls[c].earnedCowries
                ELSE /\ profile.total_xp = calls[c].xpBefore
                     /\ profile.cowrie_shells = calls[c].shellsBefore
                     /\ l \in LessonIds => progress[l] = calls[c].rowBefore

RECURSIVE C16_SumRows(_, _)
C16_SumRows(ids, column) ==
    IF ids = {} THEN 0
    ELSE LET l == CHOOSE x \in ids : TRUE
         IN  (IF progress[l] = NoRecord THEN 0 ELSE progress[l][column])
                 + C16_SumRows(ids \ {l}, column)

(* C16 as stated, for calls whose queries all succeed: whenever no         *)
(* lessonService call is in progress, total_xp exceeds its initial value   *)
(* by the sum of xp_earned over the progress rows, and cowrie_shells by    *)
(* the sum of cowries_earned.                                              *)
C16_TotalsEqualSumOfRows ==
    (ncalls > 0 /\ AllIdle /\ ~ledger.queryFailed) =>
        /\ profile.total_xp - InitialProfile.total_xp = C16_SumRows(LessonIds, "xp_earned")
        /\ profile.cowrie_shells - InitialProfile.cowrie_shells
              = C16_SumRows(LessonIds, "cowries_earned")

C17_Step ==
    \A l \in LessonIds :
        progress[l] # NoRecord =>
            /\ progress'[l] # NoRecord
            /\ progress[l].completed => progress'[l].completed
            /\ \A c \in Slots :
                  (/\ calls[c].op = "startLesson"
                   /\ calls[c].lesson = l
                   /\ calls'[c].pc # calls[c].pc) =>
                      /\ progress'[l].completed = progress[l].completed
                      /\ progress'[l].score = progress[l].score
                      /\ progress'[l].xp_earned = progress[l].xp_earned
                      /\ progress'[l].cowries_earned = progress[l].cowries_earned
                      /\ progress'[l].completed_at = progress[l].completed_at

(* C17: a step of startLesson on a lesson that has a progress row leaves   *)
(* completed, score, xp_earned, cowries_earned and completed_at of the row *)
(* as they were, and no step of any call takes a row from completed to     *)
(* not completed.                                                          *)
C17_StartLessonKeepsCompletion == [][C17_Step]_vars

(* a completed row whose lesson was started again afterwards *)
C17_Witness ==
    /\ progress["L1"] # NoRecord
    /\ progress["L1"].completed
    /\ progress["L1"].started_at > progress["L1"].completed_at
    /\ \E c \in Slots :
          calls[c].pc = "returned" /\ calls[c].op = "startLesson" /\ calls[c].ret

-----------------------------------------------------------------------------
(* retryWithBackoff                                                        *)

RetrySettled == rpc \in {"resolved", "rejected"}

Failures == {k \in 1..Len(rCalls) : ~rCalls[k].ok}

RECURSIVE TwoToThe(_)
TwoToThe(i) == IF i = 0 THEN 1 ELSE 2 * TwoToThe(i - 1)

(* the safety part of C5: the invocations, their order, the waits and the  *)
(* result                                                                  *)
C5_RetrySafety ==
    rpc # "idle" =>
        /\ Len(rCalls) + rInFlight <= maxRetries
        /\ rInFlight <= 1
        /\ \A k \in 1..Len(rCalls) : rCalls[k].ok => k = Len(rCalls)
        /\ \A k \in 1..Len(rWaits) : rWaits[k] = TwoToThe(k - 1) * 1000
        /\ rpc = "resolved" =>
              /\ rCalls # <<>>
              /\ rCalls[Len(rCalls)].ok
              /\ rResult = rCalls[Len(rCalls)]
              /\ rInFlight = 0
              /\ Len(rWaits) = Len(rCalls) - 1
        /\ (rpc = "rejected" /\ maxRetries >= 1) =>
              /\ Len(rCalls) = maxRetries
              /\ Failures = 1..maxRetries
              /\ rResult = rCalls[maxRetries]
              /\ Len(rWaits) = maxRetries - 1
        /\ ~RetrySettled => Len(rWaits) = Cardinality(Failures)

(* C5: retryWithBackoff terminates; it invokes fn at most maxRetries       *)
(* times, one at a time; it resolves with the first success and invokes    *)
(* nothing after it; after the i-th failure (i = 0, 1, ...) that is not    *)
(* the last it waits 2^i seconds; after the maxRetries-th failure it       *)
(* rejects with that error without waiting.                                *)
C5_RetryTerminatesWithBackoff == []C5_RetrySafety /\ <>RetrySettled

(* three failures, then a success on the fourth and last allowed invocation *)
C5_Witness ==
    /\ rpc = "resolved"
    /\ maxRetries = 4
    /\ Len(rCalls) = 4
    /\ rWaits = <<1000, 2000, 4000>>

-----------------------------------------------------------------------------
(* geminiService                                                           *)

C6_FallbackLanguage(default) ==
    IF gLang \in {"Yoruba", "Igbo", "Hausa"} THEN gLang ELSE default

C6_FallbackTopic ==
    IF gTopic \in {"greetings", "market", "food"} THEN gTopic ELSE "greetings"

(* C6: generateStory and startConversation never reject; when the Gemini   *)
(* call rejects or its text is not parseable JSON they resolve to the      *)
(* canned story of the language (the Yoruba one when there is none) or the *)
(* canned greeting of the language and topic (the Hausa ones when the      *)
(* language has none, the 'greetings' entry when the topic has none).      *)
C6_NeverRejectsFallsBack ==
    gpc # "idle" =>
        /\ gpc # "rejected"
        /\ gpc = "resolved" =>
              /\ gResult # NoRecord
              /\ (~gReply.ok \/ ~CleanedTextParses(gReply.text)) =>
                    IF gOp = "generateStory"
                    THEN gResult = stories[C6_FallbackLanguage("Yoruba")]
                    ELSE gResult = greetings[C6_FallbackLanguage("Hausa")][C6_FallbackTopic]

(* prose around a fenced story, for a language and a topic with no canned  *)
(* greeting                                                                *)
C6_Witness ==
    /\ gpc = "resolved"
    /\ gOp = "startConversation"
    /\ gLang = "English"
    /\ gTopic = "Market Shopping"
    /\ gReply.ok
    /\ gReply.text = <<PayloadProse, LineBreak, FenceJson, PayloadStory, Fence>>
    /\ gResult.text = "Sannu! Ya gida?"

-----------------------------------------------------------------------------
(* analyzePronunciation                                                    *)

C7_RequestFailed ==
    \/ aResp.settled = "rejected"
    \/ ~aResp.ok
    \/ aResp.body.kind # "object"

C7_ConversionFailed == aConv \in {"decodeFailed", "rejected"}

C7_InRange(q) == AtLeast(q, 75, 100) /\ Below(q, 95, 100)

(* C7 as stated: whenever audio conversion, the request, the status or the *)
(* parsing fails, the result has a score in [0.75, 0.95) and a non-empty   *)
(* feedback list.                                                          *)
C7_SubstitutedOnAnyFailure ==
    (apc = "resolved" /\ (C7_ConversionFailed \/ C7_RequestFailed)) =>
        /\ C7_InRange(aResult.score)
        /\ aResult.feedback # <<>>

(* C7, amended: analyzePronunciation never rejects.  When the request      *)
(* fails, the status is not ok or the body has no parseable text, the      *)
(* result has 0.75 <= score <= 0.95 and a non-empty feedback list.  A      *)
(* failed conversion alone substitutes nothing: the original blob is       *)
(* posted and a transcription that arrives is scored against the expected  *)
(* text.                                                                   *)
C7_NeverRejectsSubstitutes ==
    /\ apc # "rejected"
    /\ apc \in {"fetch", "resolved"} /\ C7_ConversionFailed => aForm.content = aReq.type
    /\ apc = "resolved" =>
          /\ aResult.feedback # <<>>
          /\ IF C7_RequestFailed
             THEN /\ aResult.score.num * 100 >= 75 * aResult.score.den
                  /\ aResult.score.num * 100 <= 95 * aResult.score.den
             ELSE LET words == SplitWhitespace(toLowerCase(aReq.expectedText))
                      heard == SplitWhitespace(toLowerCase(aResp.body.text))
                  IN  /\ aResult.score.den = Max2(Len(words), Len(heard))
                      /\ aResult.score.num <= Min2(Len(words), Len(heard))

(* a conversion that was rejected, followed by a non-ok status *)
C7_Witness ==
    /\ apc = "resolved"
    /\ aConv = "rejected"
    /\ aResp.settled = "resolved"
    /\ ~aResp.ok
    /\ aResult.score = [num |-> 15 * RandSteps + 4, den |-> 20 * RandSteps]
    /\ Len(aResult.feedback) = 2

-----------------------------------------------------------------------------
(* levenshteinDistance                                                     *)

InsertAt(s, k, c) ==
    [i \in 1..(Len(s) + 1) |-> IF i < k THEN s[i] ELSE IF i = k THEN c ELSE s[i - 1]]

(* the strings one insertion, deletion or substitution away from s *)
OneEdits(s) ==
    {DropAt(s, k) : k \in 1..Len(s)}
        \cup {InsertAt(s, k, c) : k \in 1..(Len(s) + 1), c \in LevChars}
        \cup ({[s EXCEPT ![k] = c] : k \in 1..Len(s), c \in LevChars} \ {s})

(* C11: levenshteinDistance(s, t) is the least number of single-character  *)
(* insertions, deletions and substitutions that turn s into t: it is 0     *)
(* exactly when s = t, no single edit of s lowers it by more than 1, some  *)
(* single edit of s lowers it by 1 when s # t, and it is symmetric.        *)
C11_LevenshteinIsEditDistance ==
    spc = "done" =>
        /\ sres \in 0..Max2(Len(str1), Len(str2))
        /\ (sres = 0) = (str1 = str2)
        /\ \A u \in OneEdits(str1) : sres <= levenshteinDistance(u, str2) + 1
        /\ str1 # str2 => \E u \in OneEdits(str1) : levenshteinDistance(u, str2) = sres - 1
        /\ sres = levenshteinDistance(str2, str1)

(* a transposition: two edits, although every letter occurs in both words *)
C11_Witness ==
    /\ spc = "done"
    /\ str1 = <<"a", "b">>
    /\ str2 = <<"b", "a">>
    /\ sres = 2

-----------------------------------------------------------------------------
(* calculatePronunciationScore and surrounding whitespace                  *)

SameQuotient(p, q) == p.num * q.den = q.num * p.den

WhitespaceStrings == {<<" ">>, <<" ", " ">>}

NoEmptyToken(s) ==
    LET tokens == SplitWhitespace(toLowerCase(s))
    IN  \A i \in 1..Len(tokens) : tokens[i] # <<>>

(* C12: the score does not depend on whitespace around either string, and  *)
(* no token that is compared is the empty string.                          *)
C12_ScoreIgnoresSurroundingWhitespace ==
    spc = "done" =>
        /\ \A w \in WhitespaceStrings :
              /\ SameQuotient(calculatePronunciationScore(w \o str1, str2), sres)
              /\ SameQuotient(calculatePronunciationScore(str1 \o w, str2), sres)
              /\ SameQuotient(calculatePronunciationScore(str1, w \o str2), sres)
              /\ SameQuotient(calculatePronunciationScore(str1, str2 \o w), sres)
        /\ NoEmptyToken(str1)
        /\ NoEmptyToken(str2)

-----------------------------------------------------------------------------
(* generateSpeech and the audio cache                                      *)

KeysOf(cache) == [i \in 1..Len(cache) |-> cache[i].key]

C13_Step ==
    LET old == KeysOf(audioCache)
        new == KeysOf(audioCache')
    IN  /\ Len(new) <= 50
        /\ audioCache' # audioCache =>
              \/ audioCache' = <<>> /\ sCalls' = sCalls
              \/ \E c \in Slots : sCalls[c].pc = "fetch" /\ sCalls'[c].pc = "returned"
        /\ \A c \in Slots :
              /\ (sCalls[c].pc = "fetch" /\ sCalls'[c].pc = "returned") =>
                    \E i \in 1..Len(audioCache') :
                        /\ audioCache'[i].key =
                              cacheKey(sCalls[c].text, sCalls[c].language, sCalls[c].voice)
                        /\ audioCache'[i].blob = sCalls'[c].ret
              /\ (sCalls[c].pc # "rejected" /\ sCalls'[c].pc = "rejected") =>
                    audioCache' = audioCache
              /\ (sCalls[c].pc = "idle" /\ sCalls'[c].hit) => audioCache' = audioCache
        /\ (new # old /\ new # <<>>) =>
              LET k == new[Len(new)]
              IN  /\ \A i \in 1..Len(old) : old[i] # k
                  /\ new = IF Len(old) < 50 THEN Append(old, k) ELSE Append(Tail(old), k)

(* C13: the cache never holds more than 50 entries; apart from clearCache  *)
(* it changes only when a speech response succeeded, which stores the blob *)
(* under the call's key; a rejected call and a cache hit leave it alone;   *)
(* and an insertion into a full cache removes exactly the entry inserted   *)
(* earliest.                                                               *)
C13_CacheBoundedFifo == [][C13_Step]_vars

(* the cache is full, its first text has been evicted, and the newest      *)
(* entry came from a call that overlapped a cache hit                      *)
C13_Witness ==
    /\ Len(audioCache) = 50
    /\ audioCache[1].key = cacheKey(ColdText(2), "en", NoValue)
    /\ audioCache[50].key = cacheKey(<<"a">>, "yo", "sade")
    /\ \E c \in Slots : sCalls[c].pc = "returned" /\ sCalls[c].hit

C14_SameVoice(v, w) == (v \in {NoValue, ""} /\ w \in {NoValue, ""}) \/ v = w

C14_MadeFor(blob, text, language, voice) ==
    /\ blob.language = language
    /\ blob.askedText = text
    /\ C14_SameVoice(blob.askedVoice, voice)

C14_RequestOf(blob) ==
    <<blob.language, IF blob.askedVoice \in {NoValue, ""} THEN NoValue ELSE blob.askedVoice,
      blob.askedText>>

-----------------------------------------------------------------------------
(* AuthProvider and ProtectedRoute                                         *)

(* C18 as stated, for a getSession that resolves: once initAuth and every  *)
(* queued callback have run, session and user are the session Supabase     *)
(* produced last and its user, whatever the order in which they ran, and   *)
(* loading is false from the first callback onward.                        *)
C18_ContextHoldsLatestSession ==
    /\ authFired => ~authCtx.loading
    /\ (gsPc = "done" /\ authQueue = <<>>) =>
          /\ authCtx.session = sbSession
          /\ authCtx.user = (IF sbSession = NoRecord THEN NoValue ELSE sbSession.user)

-----------------------------------------------------------------------------
(* SpitchService and the proxy                                             *)

(* C20 as stated: every endpoint SpitchService requests is in the proxy's  *)
(* whitelist, and no request it sends is answered with 400 'Invalid        *)
(* endpoint'.                                                              *)
C20_ClientEndpointsAllowed ==
    (ppc = "responded" /\ IsClientRequest(req)) =>
        /\ req.endpoint \in allowedEndpoints(rev)
        /\ presp # InvalidEndpoint

-----------------------------------------------------------------------------
(* ConversationPractice.sendMessage                                        *)

(* C21: after a sendMessage in which continueConversation or               *)
(* generateSpeech rejected, the list is the list as it was before the      *)
(* call and isLoading is false; after one in which both succeeded, the     *)
(* list is the previous list followed by one user message and one          *)
(* assistant message.                                                      *)
C21_SendMessageRestoresOrAppendsTwo ==
    /\ cpOutcome = "failed" =>
          /\ conversation = cpCall.conversation
          /\ ~isLoading
    /\ cpOutcome = "ok" =>
          /\ Len(conversation) = Len(cpCall.conversation) + 2
          /\ SubSeq(conversation, 1, Len(cpCall.conversation)) = cpCall.conversation
          /\ conversation[Len(conversation) - 1].role = "user"
          /\ conversation[Len(conversation)].role = "assistant"
          /\ conversation[Len(conversation)].content = cpCall.response.text
          /\ ~isLoading

(* a send that failed at generateSpeech after two that succeeded *)
C21_Witness ==
    /\ cpOutcome = "failed"
    /\ cpCall.response # NoRecord
    /\ Len(conversation) = 5
    /\ nSends = 3

=============================================================================
